---- MODULE Spec2Model ----
(***************************************************************************)
(* The chat continuation loop (supabase/functions/chat/continue.ts) and    *)
(* the Anthropic provider adapter                                          *)
(* (supabase/functions/_shared/ai_service/anthropic_adapter.ts).           *)
(*                                                                         *)
(* Conventions.  A JavaScript object is a record; a field the object does  *)
(* not carry is a field outside the record's DOMAIN.  A value that may be  *)
(* null or undefined is a sequence of length 0 (null) or 1 (the value).    *)
(* Text is a sequence of one-character strings.                            *)
(***************************************************************************)
EXTENDS Integers, Sequences, FiniteSets, TLC

VARIABLES
    \* ---- handleContinuationLoop ----
    pc,                     \* position of the loop
    initialMessages,        \* initialApiRequest.messages as the caller passed it
    callerMessages,         \* initialApiRequest.messages as the caller sees it now
    currentMessages,        \* currentRequest.messages
    accumulatedContent,
    accumulatedTokenUsage,
    continuationCount,
    lastResponse,
    loopResult,             \* the payload the loop returned, if it returned
    received,               \* the responses received so far, in call order
    callsIssued,            \* adapter.sendMessage calls started
    inFlight,               \* adapter.sendMessage calls started and not yet settled
    \* ---- AnthropicAdapter.sendMessage ----
    aPc,                    \* position of sendMessage
    aRequest,               \* the ChatApiRequest it was given
    aSent,                  \* the payloads it has POSTed to the provider, in order
    aReply,                 \* the provider's HTTP reply, once it has arrived
    aReturn,                \* the AdapterResponsePayload it returned, if it returned
    aError,                 \* the message of the Error it threw, if it threw
    \* ---- processJob (dialectic worker) ----
    pjPc,                   \* position of processJob
    pjJob,                  \* the job row it was given
    pjExecutePayload,       \* the execute payload it handed on, if it did
    \* ---- constructStoragePath, for two jobs of one stage ----
    psContext,              \* job -> the PathContext of the job
    psOutcome,              \* job -> what constructStoragePath gave it, once called
    \* ---- createCanonicalPathParams ----
    cbSourceDocs,           \* the source documents of the call, in the caller's order
    cbAnchorDoc,            \* the anchor document the caller resolved
    cbParams,               \* the CanonicalPathParams returned, once called
    \* ---- Task Isolator, for one job ----
    tiSourceDocs,           \* the source documents the planner gave the job
    tiAnchorId,             \* id of the job's anchor document
    tiNeedsRag,             \* the job's content exceeds the model's context window
    tiWorkingDocs,          \* the content the job will be executed on
    tiParams,               \* the canonicalPathParams resolved for the job, if any
    tiDone,                 \* the steps of the workflow done so far, in order
    tiPayload,              \* the execute payload of the job, once built
    \* ---- ApiClient.request ----
    apiPc,                  \* "called", "getting_token", "fetching", "settled"
    apiOptions,             \* the FetchOptions of the call
    apiHeaders,             \* the Headers object being built
    apiTokenPromise,        \* this.tokenPromise is set (a session fetch is in flight)
    apiSessionFetches,      \* calls of supabase.auth.getSession so far
    apiSession,             \* what getSession resolved to, once it did
    apiFetched,             \* the request given to fetch, once issued
    apiReply,               \* how the fetch settled
    apiOutcome,             \* how request() settled: a returned ApiResponse or a thrown error
    \* ---- the ApiClient singleton ----
    sgInstance,             \* apiClientInstance: the ApiClient held by the module, or null
    sgCreated,              \* ApiClient objects constructed so far
    sgCalls,                \* calls made on the module so far
    sgLast,                 \* the last call and how it ended
    \* ---- the wallet store (useWalletStore) ----
    wsPersonalWallet,           \* personalWallet
    wsOrganizationWallets,      \* organizationWallets: orgId -> wallet or null
    wsIsLoadingPersonalWallet,  \* isLoadingPersonalWallet
    wsIsLoadingOrgWallet,       \* isLoadingOrgWallet: orgId -> boolean
    wsPersonalWalletError,      \* personalWalletError
    wsOrgWalletErrors,          \* orgWalletErrors: orgId -> error or null
    wsUserOrgTokenConsent,      \* userOrgTokenConsent: orgId -> true, false or null
    wsOrgStore,                 \* the organization store's state, as read by the wallet store
    wsInFlight,                 \* the getWalletInfo calls awaited at the moment
    wsStarted,                  \* getWalletInfo calls started so far
    wsNow,                      \* the clock
    wsLast,                     \* the last store action that ran to its end, and its result
    \* handleCheckoutSessionCompleted
    coPc,                       \* the call the handler is at
    coDelivery,                 \* which delivery of the event is handled
    coMode,                     \* session.mode
    coUpdateFirst,              \* the update to COMPLETED precedes the user_subscriptions upsert
    coRow,                      \* the payment_transactions row of the session, Null if none
    coSucceeded,                \* subscription calls of this delivery that succeeded
    coUpdates,                  \* updatePaymentTransaction calls so far
    coRecorded,                 \* recordTransaction calls so far, by delivery
    coResult,                   \* what the handler returned or threw
    \* handleSendMessage
    smPc,                       \* "idle", "awaiting" the chat API, or "done"
    smState,                    \* the AiState behind aiStateService
    smBefore,                   \* the AiState when handleSendMessage was called
    smEnv,                      \* wallet info, current user and session token
    smLocals,                   \* the call's locals once past the guards, else Null
    smRequests,                 \* the requests handed to callChatApi
    smOutcome,                  \* how callChatApi settled, Null before
    smLogins,                   \* calls of authService.requestLoginNavigation
    smPendingDetails,           \* localStorage's pendingActionDetails, Null when unset
    smReturn,                   \* the returned assistant message, Null for null
    \* ApiClient.getToken under concurrent requests
    tkPc,                       \* per request: "idle", "awaiting_token", "fetching", "failed"
    tkOptions,                  \* per request: its FetchOptions
    tkPromise,                  \* this.tokenPromise: the getSession call it wraps, or Null
    tkInFlight,                 \* the getSession calls that have not settled
    tkFetches,                  \* supabase.auth.getSession calls made
    tkAwaits,                   \* per request: the getSession call it waits for, 0 for none
    tkSettled,                  \* per getSession call: how it settled, Null while pending
    tkGot                       \* per request: what its await of getToken gave, Null before

loopVars == <<pc, initialMessages, callerMessages, currentMessages,
              accumulatedContent, accumulatedTokenUsage, continuationCount,
              lastResponse, loopResult, received, callsIssued, inFlight>>

adapterVars == <<aPc, aRequest, aSent, aReply, aReturn, aError>>

processJobVars == <<pjPc, pjJob, pjExecutePayload>>

pathVars == <<psContext, psOutcome>>

builderVars == <<cbSourceDocs, cbAnchorDoc, cbParams>>

isolatorVars == <<tiSourceDocs, tiAnchorId, tiNeedsRag, tiWorkingDocs, tiParams, tiDone, tiPayload>>

apiVars == <<apiPc, apiOptions, apiHeaders, apiTokenPromise, apiSessionFetches, apiSession, apiFetched, apiReply, apiOutcome>>

singletonVars == <<sgInstance, sgCreated, sgCalls, sgLast>>

walletVars == <<wsPersonalWallet, wsOrganizationWallets, wsIsLoadingPersonalWallet,
                wsIsLoadingOrgWallet, wsPersonalWalletError, wsOrgWalletErrors,
                wsUserOrgTokenConsent, wsOrgStore, wsInFlight, wsStarted, wsNow, wsLast>>

checkoutVars == <<coPc, coDelivery, coMode, coUpdateFirst, coRow, coSucceeded, coUpdates, coRecorded, coResult>>

sendVars == <<smPc, smState, smBefore, smEnv, smLocals, smRequests, smOutcome, smLogins, smPendingDetails, smReturn>>

tokenVars == <<tkPc, tkOptions, tkPromise, tkInFlight, tkFetches, tkAwaits, tkSettled, tkGot>>

vars == <<loopVars, adapterVars, processJobVars, pathVars, builderVars, isolatorVars, apiVars, singletonVars, walletVars, checkoutVars, sendVars, tokenVars>>

\* what each part of the system leaves alone
exceptLoop == <<adapterVars, processJobVars, pathVars, builderVars, isolatorVars, apiVars, singletonVars, walletVars, checkoutVars, sendVars, tokenVars>>
exceptAdapter == <<loopVars, processJobVars, pathVars, builderVars, isolatorVars, apiVars, singletonVars, walletVars, checkoutVars, sendVars, tokenVars>>
exceptProcessJob == <<loopVars, adapterVars, pathVars, builderVars, isolatorVars, apiVars, singletonVars, walletVars, checkoutVars, sendVars, tokenVars>>
exceptPath == <<loopVars, adapterVars, processJobVars, builderVars, isolatorVars, apiVars, singletonVars, walletVars, checkoutVars, sendVars, tokenVars>>
exceptBuilder == <<loopVars, adapterVars, processJobVars, pathVars, isolatorVars, apiVars, singletonVars, walletVars, checkoutVars, sendVars, tokenVars>>
exceptIsolator == <<loopVars, adapterVars, processJobVars, pathVars, builderVars, apiVars, singletonVars, walletVars, checkoutVars, sendVars, tokenVars>>
exceptApi == <<loopVars, adapterVars, processJobVars, pathVars, builderVars, isolatorVars, singletonVars, walletVars, checkoutVars, sendVars, tokenVars>>
exceptSingleton == <<loopVars, adapterVars, processJobVars, pathVars, builderVars, isolatorVars, apiVars, walletVars, checkoutVars, sendVars, tokenVars>>
exceptWallet == <<loopVars, adapterVars, processJobVars, pathVars, builderVars, isolatorVars, apiVars, singletonVars, checkoutVars, sendVars, tokenVars>>
exceptCheckout == <<loopVars, adapterVars, processJobVars, pathVars, builderVars, isolatorVars, apiVars, singletonVars, walletVars, sendVars, tokenVars>>
exceptSend == <<loopVars, adapterVars, processJobVars, pathVars, builderVars, isolatorVars, apiVars, singletonVars, walletVars, checkoutVars, tokenVars>>
exceptToken == <<loopVars, adapterVars, processJobVars, pathVars, builderVars, isolatorVars, apiVars, singletonVars, walletVars, checkoutVars, sendVars>>

----------------------------------------------------------------------------
(* Values *)

Null == <<>>
Some(v) == <<v>>

\* obj.f || 0
OrZero(obj, f) == IF f \in DOMAIN obj /\ obj[f] # 0 THEN obj[f] ELSE 0

\* { ...obj, ...over }
Spread(obj, over) ==
    [f \in DOMAIN obj \cup DOMAIN over |->
        IF f \in DOMAIN over THEN over[f] ELSE obj[f]]

FinishReasons == {"stop", "length", "tool_calls", "unknown"}

\* the parts of the system a specification does not exercise stay as they are
TokenUnused ==
    /\ tkPc = <<>>
    /\ tkOptions = <<>>
    /\ tkPromise = Null
    /\ tkInFlight = {}
    /\ tkFetches = 0
    /\ tkAwaits = <<>>
    /\ tkSettled = <<>>
    /\ tkGot = <<>>

SendUnused ==
    /\ smPc = "unused"
    /\ smState = Null
    /\ smBefore = Null
    /\ smEnv = Null
    /\ smLocals = Null
    /\ smRequests = <<>>
    /\ smOutcome = Null
    /\ smLogins = 0
    /\ smPendingDetails = Null
    /\ smReturn = Null

CheckoutUnused ==
    /\ coPc = "unused"
    /\ coDelivery = 0
    /\ coMode = ""
    /\ coUpdateFirst = FALSE
    /\ coRow = Null
    /\ coSucceeded = {}
    /\ coUpdates = <<>>
    /\ coRecorded = <<>>
    /\ coResult = Null

WalletUnused ==
    /\ wsPersonalWallet = Null
    /\ wsOrganizationWallets = <<>>
    /\ wsIsLoadingPersonalWallet = FALSE
    /\ wsIsLoadingOrgWallet = <<>>
    /\ wsPersonalWalletError = Null
    /\ wsOrgWalletErrors = <<>>
    /\ wsUserOrgTokenConsent = <<>>
    /\ wsOrgStore = Null
    /\ wsInFlight = {}
    /\ wsStarted = 0
    /\ wsNow = 0
    /\ wsLast = Null

SingletonUnused ==
    /\ sgInstance = Null
    /\ sgCreated = 0
    /\ sgCalls = 0
    /\ sgLast = Null

ApiUnused ==
    /\ apiPc = "unused"
    /\ apiOptions = Null
    /\ apiHeaders = Null
    /\ apiTokenPromise = FALSE
    /\ apiSessionFetches = 0
    /\ apiSession = Null
    /\ apiFetched = Null
    /\ apiReply = Null
    /\ apiOutcome = Null

IsolatorUnused ==
    /\ tiSourceDocs = <<>>
    /\ tiAnchorId = 0
    /\ tiNeedsRag = FALSE
    /\ tiWorkingDocs = <<>>
    /\ tiParams = Null
    /\ tiDone = <<>>
    /\ tiPayload = Null

BuilderUnused ==
    /\ cbSourceDocs = <<>>
    /\ cbAnchorDoc = Null
    /\ cbParams = Null

PathUnused ==
    /\ psContext = <<>>
    /\ psOutcome = <<>>

ProcessJobUnused ==
    /\ pjPc = "unused"
    /\ pjJob = Null
    /\ pjExecutePayload = Null

MAX_CONTINUATIONS == 4

----------------------------------------------------------------------------
(* What an AiProviderAdapter may hand back to the loop.  The loop is       *)
(* written against the adapter interface, so the responses cover adapters  *)
(* that report the finish reason inside token_usage (where the loop reads  *)
(* it), adapters shaped like AnthropicAdapter (token_usage null or without *)
(* a finish reason, finish_reason beside it) and a response with neither.  *)

Chunks ==
    { [content |-> <<"a">>, usage |-> [prompt_tokens |-> 10, completion_tokens |-> 5]],
      [content |-> <<"b">>, usage |-> [prompt_tokens |-> 12, completion_tokens |-> 7]],
      [content |-> <<"b">>, usage |-> [completion_tokens |-> 7]] }

UsageReportingResponses ==
    LET inUsage(k, r) == [content |-> k.content,
                          token_usage |-> Some(Spread(k.usage, [finish_reason |-> r]))]
    IN  { inUsage(k, r) : k \in Chunks, r \in FinishReasons }
        \cup { Spread(inUsage(k, r), [finish_reason |-> r]) : k \in Chunks, r \in FinishReasons }

TopLevelResponses ==
    LET total(u) == Spread(u, [total_tokens |-> OrZero(u, "prompt_tokens")
                                               + OrZero(u, "completion_tokens")])
    IN  { [content |-> k.content, token_usage |-> Some(total(k.usage)), finish_reason |-> r] :
              k \in Chunks, r \in FinishReasons }
        \cup { [content |-> k.content, token_usage |-> Null, finish_reason |-> r] :
              k \in Chunks, r \in FinishReasons }

BareResponses == { [content |-> k.content, token_usage |-> Null] : k \in Chunks }

AdapterResponses == UsageReportingResponses \cup TopLevelResponses \cup BareResponses

InitialHistories == { <<>>, <<[role |-> "user", content |-> <<"q">>]>> }

----------------------------------------------------------------------------
(* AnthropicAdapter.sendMessage *)

MaxHistory == 3
ContextWindowTokens == 2

Roles == {"user", "assistant", "system"}
MessageContents == { <<>>, <<"x">> }
Messages == [role : Roles, content : MessageContents]

RECURSIVE SeqsUpTo(_, _)
\* the sequences over S of length at most n
SeqsUpTo(S, n) ==
    IF n = 0 THEN { <<>> }
    ELSE LET shorter == SeqsUpTo(S, n - 1)
         IN  shorter \cup { Append(q, x) : q \in { t \in shorter : Len(t) = n - 1 }, x \in S }

\* the ChatApiRequest fields sendMessage reads
Requests ==
    [messages : {Null} \cup { Some(h) : h \in SeqsUpTo(Messages, MaxHistory) },
     message : {Null, Some(<<>>), Some(<<"x">>)},
     max_tokens_to_generate : {Null, Some(0), Some(256)}]

\* what fetch resolves with: a status and, when the body is read, its JSON
TextBlocks == { <<>>, <<" ">>, <<"a">>, <<" ", "a", " ">> }
ContentBlocks ==
    { <<>>, <<[type |-> "tool_use"]>> } \cup { <<[type |-> "text", text |-> t]>> : t \in TextBlocks }
StopReasons == {"end_turn", "stop_sequence", "max_tokens", "tool_use", "pause_turn", ""}
ProviderUsages ==
    { [input_tokens |-> 10, output_tokens |-> 5], [output_tokens |-> 7] }
ProviderJson ==
    LET base == { [content |-> b] : b \in ContentBlocks }
        withStop == base \cup { Spread(j, [stop_reason |-> r]) : j \in base, r \in StopReasons }
    IN  withStop \cup { Spread(j, [usage |-> u]) : j \in withStop, u \in ProviderUsages }
ProviderReplies ==
    { [ok |-> FALSE, status |-> 500] }
    \cup { [ok |-> TRUE, status |-> 200, json |-> j] : j \in ProviderJson }

\* [...(request.messages ?? [])], then the new user message when request.message is truthy
CombinedMessages(request) ==
    LET history == IF request.messages = Null THEN <<>> ELSE request.messages[1]
    IN  IF request.message # Null /\ request.message[1] # <<>>
        THEN Append(history, [role |-> "user", content |-> request.message[1]])
        ELSE history

RECURSIVE SystemPromptOf(_)
\* the content of the last system message with content, '' when there is none
SystemPromptOf(msgs) ==
    IF msgs = <<>> THEN <<>>
    ELSE LET m == msgs[Len(msgs)]
         IN  IF m.role = "system" /\ m.content # <<>> THEN m.content
             ELSE SystemPromptOf(SubSeq(msgs, 1, Len(msgs) - 1))

\* the user and assistant messages, in order; a system message is never kept
PreliminaryMessages(msgs) ==
    SelectSeq(msgs, LAMBDA m : ~(m.role = "system" /\ m.content # <<>>)
                               /\ m.role \in {"user", "assistant"})

RECURSIVE AlternationFilter(_, _)
\* keeps a message when its role is the expected one, then expects the other
AlternationFilter(msgs, expectedRole) ==
    IF msgs = <<>> THEN <<>>
    ELSE IF Head(msgs).role = expectedRole
         THEN <<Head(msgs)>>
              \o AlternationFilter(Tail(msgs), IF expectedRole = "user" THEN "assistant" ELSE "user")
         ELSE AlternationFilter(Tail(msgs), expectedRole)

\* faulty variant: the role-alternation pass is skipped
AnthropicMessages_Unfiltered(request) ==
    PreliminaryMessages(CombinedMessages(request))

\* anthropicMessages
AnthropicMessages(request) ==
    AlternationFilter(PreliminaryMessages(CombinedMessages(request)), "user")

\* the Error thrown before any request is made, "" when none is
FormatError(anthropicMessages) ==
    IF Len(anthropicMessages) = 0
    THEN "Cannot send request to Anthropic: No valid messages to send."
    ELSE IF anthropicMessages[Len(anthropicMessages)].role # "user"
    THEN "Cannot send request to Anthropic: message history format invalid."
    ELSE ""

DefaultMaxTokens == 4096

MaxTokensForPayload(request) ==
    IF request.max_tokens_to_generate # Null /\ request.max_tokens_to_generate[1] > 0
    THEN request.max_tokens_to_generate[1]
    ELSE DefaultMaxTokens

\* anthropicPayload; system is undefined when the prompt is ''
AnthropicPayload(request) ==
    LET systemPrompt == SystemPromptOf(CombinedMessages(request))
    IN  [system |-> IF systemPrompt = <<>> THEN Null ELSE Some(systemPrompt),
         messages |-> AnthropicMessages(request),
         max_tokens |-> MaxTokensForPayload(request)]

RECURSIVE TrimStart(_)
TrimStart(text) ==
    IF text # <<>> /\ Head(text) = " " THEN TrimStart(Tail(text)) ELSE text

RECURSIVE TrimEnd(_)
TrimEnd(text) ==
    IF text # <<>> /\ text[Len(text)] = " " THEN TrimEnd(SubSeq(text, 1, Len(text) - 1)) ELSE text

\* String.prototype.trim
Trim(text) == TrimEnd(TrimStart(text))

\* faulty variant: the text is taken as it comes, without trim()
AssistantMessageContent_Untrimmed(json) ==
    IF "content" \in DOMAIN json /\ Len(json.content) > 0 /\ json.content[1].type = "text"
    THEN json.content[1].text
    ELSE <<>>

\* jsonResponse.content?.[0]?.type === 'text' ? jsonResponse.content[0].text.trim() : ''
AssistantMessageContent(json) ==
    IF "content" \in DOMAIN json /\ Len(json.content) > 0 /\ json.content[1].type = "text"
    THEN Trim(json.content[1].text)
    ELSE <<>>

\* tokenUsage: null without jsonResponse.usage; a count the provider left out
\* is an undefined field
TokenUsageOf(json) ==
    IF "usage" \in DOMAIN json
    THEN LET usage == json.usage
             prompt == IF "input_tokens" \in DOMAIN usage
                       THEN [prompt_tokens |-> usage.input_tokens] ELSE <<>>
             completion == IF "output_tokens" \in DOMAIN usage
                           THEN [completion_tokens |-> usage.output_tokens] ELSE <<>>
         IN  Some(Spread(Spread(prompt, completion),
                         [total_tokens |-> OrZero(usage, "input_tokens")
                                           + OrZero(usage, "output_tokens")]))
    ELSE Null

\* faulty variant: the max_tokens case is missing from the switch
NormalizeFinishReason_NoLengthCase(json) ==
    IF "stop_reason" \in DOMAIN json /\ json.stop_reason # ""
    THEN CASE json.stop_reason \in {"end_turn", "stop_sequence"} -> "stop"
           [] json.stop_reason = "tool_use" -> "tool_calls"
           [] OTHER -> "unknown"
    ELSE "unknown"

\* the switch over jsonResponse.stop_reason
NormalizeFinishReason(json) ==
    IF "stop_reason" \in DOMAIN json /\ json.stop_reason # ""
    THEN CASE json.stop_reason \in {"end_turn", "stop_sequence"} -> "stop"
           [] json.stop_reason = "max_tokens" -> "length"
           [] json.stop_reason = "tool_use" -> "tool_calls"
           [] OTHER -> "unknown"
    ELSE "unknown"

\* adapterResponse (ai_provider_id and system_prompt_id, copied from request
\* fields nothing else reads, are left out)
AdapterResponse(json) ==
    [role |-> "assistant",
     content |-> AssistantMessageContent(json),
     token_usage |-> TokenUsageOf(json),
     finish_reason |-> NormalizeFinishReason(json)]

AdapterUnused ==
    /\ aPc = "unused"
    /\ aRequest = [messages |-> Null, message |-> Null, max_tokens_to_generate |-> Null]
    /\ aSent = <<>>
    /\ aReply = Null
    /\ aReturn = Null
    /\ aError = ""

LoopUnused ==
    /\ pc = "unused"
    /\ initialMessages = Null
    /\ callerMessages = Null
    /\ currentMessages = <<>>
    /\ accumulatedContent = <<>>
    /\ accumulatedTokenUsage = [prompt_tokens |-> 0, completion_tokens |-> 0, total_tokens |-> 0]
    /\ continuationCount = 0
    /\ lastResponse = Null
    /\ loopResult = Null
    /\ received = <<>>
    /\ callsIssued = 0
    /\ inFlight = 0

InitAdapter ==
    /\ LoopUnused
    /\ ProcessJobUnused
    /\ PathUnused
    /\ BuilderUnused
    /\ IsolatorUnused
    /\ ApiUnused
    /\ SingletonUnused
    /\ WalletUnused
    /\ CheckoutUnused
    /\ SendUnused
    /\ TokenUnused
    /\ aPc = "called"
    /\ aRequest \in Requests
    /\ aSent = <<>>
    /\ aReply = Null
    /\ aReturn = Null
    /\ aError = ""

\* sendMessage up to the fetch: build the payload, throw on a format error,
\* otherwise POST it.
BuildAndSend ==
    /\ aPc = "called"
    /\ LET error == FormatError(AnthropicMessages(aRequest))
       IN  IF error # ""
           THEN /\ aPc' = "threw"
                /\ aError' = error
                /\ UNCHANGED aSent
           ELSE /\ aPc' = "fetching"
                /\ aSent' = Append(aSent, AnthropicPayload(aRequest))
                /\ UNCHANGED aError
    /\ UNCHANGED <<aRequest, aReply, aReturn>>
    /\ UNCHANGED exceptAdapter

\* fetch resolves with `reply`; the rest of sendMessage.
HandleReply(reply) ==
    /\ aReply' = Some(reply)
    /\ IF ~reply.ok
       THEN /\ aPc' = "threw"
            /\ aError' = "Anthropic API request failed"
            /\ UNCHANGED aReturn
       ELSE IF AssistantMessageContent(reply.json) = <<>>
       THEN /\ aPc' = "threw"
            /\ aError' = "Received empty response from Anthropic."
            /\ UNCHANGED aReturn
       ELSE /\ aPc' = "returned"
            /\ aReturn' = Some(AdapterResponse(reply.json))
            /\ UNCHANGED aError
    /\ UNCHANGED <<aRequest, aSent>>
    /\ UNCHANGED exceptAdapter

ProviderReply ==
    /\ aPc = "fetching"
    /\ \E reply \in ProviderReplies : HandleReply(reply)

NextAdapter == BuildAndSend \/ ProviderReply

SpecAdapter == InitAdapter /\ [][NextAdapter]_vars

----------------------------------------------------------------------------
(* The dialectic worker.  Its code (processJob.ts, path_constructor.ts,    *)
(* canonical_context_builder.ts, task_isolator.ts) is described by the     *)
(* specification and by the checklist                                      *)
(* docs/implementations/Current/Checklists/Current/Fixing                  *)
(* dialectic-worker.md; the definitions below follow those descriptions.   *)

MaxIteration == 2

ContributionIds == {"contribution-1", "contribution-2"}
SimpleStages == {"thesis", "parenthesis", "paralysis"}
ModelIds == {"model-1", "model-2"}

\* processJob: the job rows it is given.  A plan job asks for a stage to be
\* run; an execute job that names a target contribution re-enters a
\* contribution in progress (a continuation).
Jobs ==
    [job_type : {"plan", "execute"},
     stageSlug : SimpleStages,
     model_id : ModelIds,
     iterationNumber : 1..MaxIteration,
     target_contribution_id : {Null} \cup { Some(c) : c \in ContributionIds }]

\* faulty variant: the execute payload is the plan payload with its job
\* type changed, target_contribution_id carried along
TransformPlanToExecute_Inheriting(job) ==
    Spread(job, [job_type |-> "execute",
                 canonicalPathParams |-> [contributionType |-> job.stageSlug]])

\* the execute payload built from a plan job of a simple stage:
\* target_contribution_id is set to undefined, canonicalPathParams holds
\* just the contribution type
TransformPlanToExecute(job) ==
    Spread(job, [job_type |-> "execute",
                 target_contribution_id |-> Null,
                 canonicalPathParams |-> [contributionType |-> job.stageSlug]])

\* processJob tells the cases apart by job kind
ProcessJobPayload(job) ==
    IF job.job_type = "plan" THEN TransformPlanToExecute(job) ELSE job

InitProcessJob ==
    /\ LoopUnused
    /\ AdapterUnused
    /\ PathUnused
    /\ BuilderUnused
    /\ IsolatorUnused
    /\ ApiUnused
    /\ SingletonUnused
    /\ WalletUnused
    /\ CheckoutUnused
    /\ SendUnused
    /\ TokenUnused
    /\ pjPc = "received"
    /\ pjJob \in { Some(j) : j \in Jobs }
    /\ pjExecutePayload = Null

\* processJob for a job of a simple stage: hand the execute payload to
\* processSimpleJob.
ProcessJob ==
    /\ pjPc = "received"
    /\ pjExecutePayload' = Some(ProcessJobPayload(pjJob[1]))
    /\ pjPc' = "handed_on"
    /\ UNCHANGED pjJob
    /\ UNCHANGED exceptProcessJob

NextProcessJob == ProcessJob

SpecProcessJob == InitProcessJob /\ [][NextProcessJob]_vars

MaxChunkIndex == 1

\* Slugs and types are text in pieces: a piece is a run of characters, and a
\* text is its pieces one after the other.  Two texts with the same pieces
\* are the same string.
ModelSlugs == { <<"a">>, <<"b">>, <<"a", "_with_", "a">> }
AnchorTypes == { <<"thesis">>, <<"outline">> }

\* PathContext of FileType pairwise_synthesis_chunk
PathContexts ==
    [fileType : {"pairwise_synthesis_chunk"},
     modelSlug : { <<"a">> },
     sourceAnchorModelSlug : {Null} \cup { Some(m) : m \in ModelSlugs },
     pairedModelSlug : {Null} \cup { Some(m) : m \in ModelSlugs },
     sourceAnchorType : {Null} \cup { Some(t) : t \in AnchorTypes },
     n : 0..MaxChunkIndex,
     contributionType : { <<"synthesis">> }]

\* a template placeholder: an undefined value prints as "undefined"
Placeholder(value) == IF value = Null THEN <<"undefined">> ELSE value[1]

\* {modelSlug}_synthesizing_{sourceAnchorModelSlug}_with_{pairedModelSlug}_on_{sourceAnchorType}_{n}_{contributionType}.md
PairwiseSynthesisChunkFileName(context) ==
    context.modelSlug \o <<"_synthesizing_">>
    \o Placeholder(context.sourceAnchorModelSlug) \o <<"_with_">>
    \o Placeholder(context.pairedModelSlug) \o <<"_on_">>
    \o Placeholder(context.sourceAnchorType) \o <<"_">>
    \o <<ToString(context.n)>> \o <<"_">>
    \o context.contributionType \o <<".md">>

\* faulty variant: only the anchor fields are validated
RequiredContextFields_AnchorOnly(fileType) ==
    IF fileType = "pairwise_synthesis_chunk"
    THEN {"sourceAnchorType", "sourceAnchorModelSlug"}
    ELSE {}

\* the primitives a FileType cannot be named without
RequiredContextFields(fileType) ==
    IF fileType = "pairwise_synthesis_chunk"
    THEN {"sourceAnchorType", "sourceAnchorModelSlug", "pairedModelSlug"}
    ELSE {}

\* constructStoragePath: the path of the stage directory and the file name,
\* or the error naming the required fields the context lacks
ConstructStoragePath(context) ==
    LET missing == { f \in RequiredContextFields(context.fileType) : context[f] = Null }
    IN  IF missing # {}
        THEN [kind |-> "MissingRequiredContextField", fields |-> missing]
        ELSE [kind |-> "path",
              path |-> <<"stage/">> \o PairwiseSynthesisChunkFileName(context)]

PathJobs == {1, 2}

InitPath ==
    /\ LoopUnused
    /\ AdapterUnused
    /\ ProcessJobUnused
    /\ BuilderUnused
    /\ IsolatorUnused
    /\ ApiUnused
    /\ SingletonUnused
    /\ WalletUnused
    /\ CheckoutUnused
    /\ SendUnused
    /\ TokenUnused
    /\ psContext \in [PathJobs -> PathContexts]
    /\ psOutcome = [j \in PathJobs |-> Null]

\* a job computes the path it will write to
ConstructPath ==
    \E j \in PathJobs :
        /\ psOutcome[j] = Null
        /\ psOutcome' = [psOutcome EXCEPT ![j] = Some(ConstructStoragePath(psContext[j]))]
        /\ UNCHANGED psContext
        /\ UNCHANGED exceptPath

NextPath == ConstructPath

SpecPath == InitPath /\ [][NextPath]_vars

----------------------------------------------------------------------------
(* createCanonicalPathParams (canonical_context_builder) *)

MaxDocs == 3

\* characters in ascending order of their code
Alphabet == <<"a", "b">>

CharCode(c) == CHOOSE i \in 1..Len(Alphabet) : Alphabet[i] = c

\* model slugs, character by character
BuilderSlugs == { <<"a">>, <<"a", "b">>, <<"b">> }

SourceDocuments ==
    [id : 1..MaxDocs, contribution_type : {"thesis", "antithesis"}, model_name : BuilderSlugs]

\* the caller's documents: each document once, models may repeat
SourceDocLists ==
    { docs \in SeqsUpTo(SourceDocuments, MaxDocs) :
        \A i, j \in 1..Len(docs) : docs[i].id = docs[j].id => i = j }

\* string comparison: s sorts before t
SlugLess(s, t) ==
    \E k \in 1..(Len(t)) :
        /\ \A i \in 1..(k - 1) : i <= Len(s) /\ s[i] = t[i]
        /\ \/ k > Len(s)
           \/ k <= Len(s) /\ CharCode(s[k]) < CharCode(t[k])

\* the slugs in the order met, each once
DistinctSlugs(slugs) ==
    LET RECURSIVE Go(_, _)
        Go(i, acc) ==
            IF i > Len(slugs) THEN acc
            ELSE IF \E k \in 1..Len(acc) : acc[k] = slugs[i]
                 THEN Go(i + 1, acc)
                 ELSE Go(i + 1, Append(acc, slugs[i]))
    IN  Go(1, <<>>)

\* faulty variant: the slugs stay in the order of the input
SortSlugs_InputOrder(slugs) == slugs

\* sort(): ascending, by insertion
SortSlugs(slugs) ==
    LET Insert(sorted, x) ==
            LET before == SelectSeq(sorted, LAMBDA y : ~SlugLess(x, y))
                after == SelectSeq(sorted, LAMBDA y : SlugLess(x, y))
            IN  before \o <<x>> \o after
        RECURSIVE Go(_, _)
        Go(i, acc) == IF i > Len(slugs) THEN acc ELSE Go(i + 1, Insert(acc, slugs[i]))
    IN  Go(1, <<>>)

\* faulty variant: a document counts as another one when its model differs
OtherDocuments_ByModel(sourceDocs, anchorDoc) ==
    SelectSeq(sourceDocs, LAMBDA doc : doc.model_name # anchorDoc.model_name)

\* the documents of the operation besides the anchor
OtherDocuments(sourceDocs, anchorDoc) ==
    SelectSeq(sourceDocs, LAMBDA doc : doc.id # anchorDoc.id)

CreateCanonicalPathParams(sourceDocs, outputType, anchorDoc) ==
    LET slugs == [i \in 1..Len(sourceDocs) |-> sourceDocs[i].model_name]
        others == OtherDocuments(sourceDocs, anchorDoc)
    IN  [contributionType |-> outputType,
         sourceModelSlugs |-> SortSlugs(DistinctSlugs(slugs)),
         sourceAnchorType |-> Some(anchorDoc.contribution_type),
         sourceAnchorModelSlug |-> Some(anchorDoc.model_name),
         pairedModelSlug |-> IF Len(others) = 1 THEN Some(others[1].model_name) ELSE Null]

InitBuilder ==
    /\ LoopUnused
    /\ AdapterUnused
    /\ ProcessJobUnused
    /\ PathUnused
    /\ IsolatorUnused
    /\ ApiUnused
    /\ SingletonUnused
    /\ WalletUnused
    /\ CheckoutUnused
    /\ SendUnused
    /\ TokenUnused
    /\ cbSourceDocs \in SourceDocLists
    /\ cbAnchorDoc \in { Some(d) : d \in SourceDocuments }
    \* the caller resolves the anchor among the documents, when there are any
    /\ cbSourceDocs # <<>> => \E i \in 1..Len(cbSourceDocs) : cbSourceDocs[i] = cbAnchorDoc[1]
    /\ cbParams = Null

CallBuilder ==
    /\ cbParams = Null
    /\ cbParams' = Some(CreateCanonicalPathParams(cbSourceDocs, "synthesis", cbAnchorDoc[1]))
    /\ UNCHANGED <<cbSourceDocs, cbAnchorDoc>>
    /\ UNCHANGED exceptBuilder

NextBuilder == CallBuilder

SpecBuilder == InitBuilder /\ [][NextBuilder]_vars

----------------------------------------------------------------------------
(* Task Isolator (task_isolator), RAG workflow *)

\* what retrieval-augmented summarization leaves of the source documents:
\* one text that is no contribution of any model
RagSummary == [id |-> 0, contribution_type |-> "rag_summary", model_name |-> <<>>]

\* the anchor is looked up among the documents at hand; without it the
\* anchor and pair fields are left out
ResolveCanonicalContext(docs, anchorId, outputType) ==
    IF \E i \in 1..Len(docs) : docs[i].id = anchorId
    THEN CreateCanonicalPathParams(docs, outputType,
             docs[CHOOSE i \in 1..Len(docs) : docs[i].id = anchorId])
    ELSE [contributionType |-> outputType,
          sourceModelSlugs |-> SortSlugs(DistinctSlugs(
                                   [i \in 1..Len(docs) |-> docs[i].model_name])),
          sourceAnchorType |-> Null,
          sourceAnchorModelSlug |-> Null,
          pairedModelSlug |-> Null]

\* faulty variant: the summary is made first and the context resolved from it
IsolatorSteps_SummaryFirst(needsRag) ==
    IF needsRag THEN <<"summarize", "resolve", "build">> ELSE <<"resolve", "build">>

\* the workflow of one job, in program order
IsolatorSteps(needsRag) ==
    IF needsRag THEN <<"resolve", "summarize", "build">> ELSE <<"resolve", "build">>

IsolatorNextStep ==
    LET steps == IsolatorSteps(tiNeedsRag)
    IN  IF Len(tiDone) < Len(steps) THEN steps[Len(tiDone) + 1] ELSE "none"

\* the planner's jobs: an anchor alone or an anchor and its paired document
IsolatorJobs ==
    { job \in [docs : { d \in SourceDocLists : Len(d) \in {1, 2} },
               anchorId : 1..MaxDocs, needsRag : BOOLEAN] :
        \E i \in 1..Len(job.docs) : job.docs[i].id = job.anchorId }

InitIsolator ==
    /\ LoopUnused
    /\ AdapterUnused
    /\ ProcessJobUnused
    /\ PathUnused
    /\ BuilderUnused
    /\ ApiUnused
    /\ SingletonUnused
    /\ WalletUnused
    /\ CheckoutUnused
    /\ SendUnused
    /\ TokenUnused
    /\ \E job \in IsolatorJobs :
           /\ tiSourceDocs = job.docs
           /\ tiAnchorId = job.anchorId
           /\ tiNeedsRag = job.needsRag
           /\ tiWorkingDocs = job.docs
    /\ tiParams = Null
    /\ tiDone = <<>>
    /\ tiPayload = Null

\* gather the full context of the job into its canonicalPathParams
ResolveContext ==
    /\ tiPayload = Null
    /\ IsolatorNextStep = "resolve"
    /\ tiParams' = Some(ResolveCanonicalContext(tiWorkingDocs, tiAnchorId, "synthesis"))
    /\ tiDone' = Append(tiDone, "resolve")
    /\ UNCHANGED <<tiSourceDocs, tiAnchorId, tiNeedsRag, tiWorkingDocs, tiPayload>>
    /\ UNCHANGED exceptIsolator

\* replace the source documents by their RAG summary
SummarizeContent ==
    /\ tiPayload = Null
    /\ IsolatorNextStep = "summarize"
    /\ tiWorkingDocs' = <<RagSummary>>
    /\ tiDone' = Append(tiDone, "summarize")
    /\ UNCHANGED <<tiSourceDocs, tiAnchorId, tiNeedsRag, tiParams, tiPayload>>
    /\ UNCHANGED exceptIsolator

\* the job row handed to execution
BuildExecutePayload ==
    /\ tiPayload = Null
    /\ IsolatorNextStep = "build"
    /\ tiPayload' = Some([job_type |-> "execute",
                          canonicalPathParams |-> tiParams[1],
                          content |-> tiWorkingDocs])
    /\ tiDone' = Append(tiDone, "build")
    /\ UNCHANGED <<tiSourceDocs, tiAnchorId, tiNeedsRag, tiWorkingDocs, tiParams>>
    /\ UNCHANGED exceptIsolator

NextIsolator ==
    \/ ResolveContext
    \/ SummarizeContent
    \/ BuildExecutePayload

SpecIsolator == InitIsolator /\ [][NextIsolator]_vars

----------------------------------------------------------------------------
(* ApiClient.request (packages/api/src/apiClient.ts) *)

\* JSON values, tagged by type; a string is text in pieces
JStr(text) == <<"string", text>>
JNull == <<"null">>
JObject == <<"object">>

SupabaseAnonKey == <<"anon-key">>
Bearer(token) == <<"Bearer ", token>>

HeaderNames == {"Content-Type", "apikey", "Authorization"}

\* Headers: name -> the values appended under it, none when absent
NoHeaders == [name \in HeaderNames |-> <<>>]
HeadersHas(headers, name) == headers[name] # <<>>
HeadersAppend(headers, name, value) == [headers EXCEPT ![name] = Append(@, value)]

\* FetchOptions as the callers pass them
FetchOptions ==
    [isPublic : {Null, Some(TRUE), Some(FALSE)},
     token : {Null, Some(<<>>), Some(<<"options-token">>)},
     authorizationHeader : {Null, Some(Bearer(<<"caller-token">>))},
     contentTypeHeader : {Null, Some("application/json"), Some("text/plain")},
     body : {"none", "plain_object", "form_data", "string"}]

\* what supabase.auth.getSession() resolves to
SessionResults ==
    { [error |-> TRUE, session |-> Null],
      [error |-> FALSE, session |-> Null],
      [error |-> FALSE, session |-> Some([access_token |-> <<"session-token">>])] }

\* objects a function may answer with: any of the keys code, message, error
JsonObjects ==
    UNION { { f \in [keys -> {JStr(<<"AUTH_REQUIRED">>), JStr(<<"INVALID_INPUT">>),
                              JStr(<<"Please log in">>), JNull, JStr(<<"boom">>), JObject}] :
                /\ "code" \in keys => f["code"] \in {JStr(<<"AUTH_REQUIRED">>), JStr(<<"INVALID_INPUT">>)}
                /\ "message" \in keys => f["message"] \in {JStr(<<"Please log in">>), JNull}
                /\ "error" \in keys => f["error"] \in {JStr(<<"boom">>), JObject} }
            : keys \in SUBSET {"code", "message", "error"} }

\* a body sent as application/json: an object, a bare string, or not JSON at all
JsonBodies ==
    { [kind |-> "object", fields |-> f] : f \in JsonObjects }
    \cup { [kind |-> "string", text |-> <<"ok">>], [kind |-> "unparsable"] }

TextBodies ==
    { [kind |-> "string", text |-> t] : t \in { <<>>, <<" ">>, <<"Internal Server Error">> } }

\* the statuses answered, with their reason phrases
StatusTexts == [s \in {200, 204, 400, 401, 500} |->
                   CASE s = 200 -> <<"OK">>
                     [] s = 204 -> <<"No Content">>
                     [] s = 400 -> <<"Bad Request">>
                     [] s = 401 -> <<"Unauthorized">>
                     [] s = 500 -> <<"Internal Server Error">>]

\* how a fetch settles: it rejects, or it resolves to a Response
\* (statusText is the reason phrase, or empty where the protocol has none)
FetchReplies ==
    { [settled |-> "rejected", message |-> <<"Failed to fetch">>] }
    \cup { r \in [settled : {"resolved"}, status : DOMAIN StatusTexts,
                   statusText : { StatusTexts[st] : st \in DOMAIN StatusTexts } \cup { <<>> },
                   contentType : {Some("application/json")}, body : JsonBodies] :
               r.statusText \in { StatusTexts[r.status], <<>> } }
    \cup { r \in [settled : {"resolved"}, status : DOMAIN StatusTexts,
                   statusText : { StatusTexts[st] : st \in DOMAIN StatusTexts } \cup { <<>> },
                   contentType : {Null, Some("text/plain")}, body : TextBodies] :
               r.statusText \in { StatusTexts[r.status], <<>> } }

ResponseOk(reply) == reply.status >= 200 /\ reply.status <= 299

IsPublic(options) == options.isPublic = Some(TRUE)

\* new Headers(options.headers) and the treatment of the body
InitialHeaders(options) ==
    LET given == [NoHeaders EXCEPT
                    !["Content-Type"] = IF options.contentTypeHeader = Null THEN <<>>
                                        ELSE <<options.contentTypeHeader[1]>>,
                    !["Authorization"] = IF options.authorizationHeader = Null THEN <<>>
                                         ELSE <<options.authorizationHeader[1]>>]
    IN  IF options.body = "form_data"
        THEN [given EXCEPT !["Content-Type"] = <<>>]
        ELSE IF options.body = "plain_object" /\ ~HeadersHas(given, "Content-Type")
        THEN HeadersAppend(given, "Content-Type", "application/json")
        ELSE given

ProcessedBody(options) ==
    IF options.body = "plain_object"
       /\ (options.contentTypeHeader = Null \/ options.contentTypeHeader = Some("application/json"))
    THEN "json_string"
    ELSE options.body

\* faulty variant: the request's isPublic mark is not looked at
WantsAuthorization_IgnoringPublic(options, headers) ==
    ~HeadersHas(headers, "Authorization")

\* only add Authorization if not already present and not public
WantsAuthorization(options, headers) ==
    ~IsPublic(options) /\ ~HeadersHas(headers, "Authorization")

\* a token that counts: defined and not the empty string
Truthy(token) == token # Null /\ token # Some(<<>>)

\* getToken: the access token of the session, if there is one
TokenOfSession(result) ==
    IF result.error THEN Null
    ELSE IF result.session = Null THEN Null
    ELSE Some(result.session[1].access_token)

FetchRequest(options, headers) ==
    [headers |-> headers, body |-> ProcessedBody(options)]

IsApiErrorType(data) ==
    /\ data.kind = "object"
    /\ "code" \in DOMAIN data.fields
    /\ "message" \in DOMAIN data.fields

\* the body as parsed: JSON when the Content-Type says so, else its text
ResponseData(reply) ==
    IF reply.status = 204 THEN [kind |-> "null"]
    ELSE reply.body

\* the error of a non-OK response
ErrorPayload(reply, data) ==
    IF IsApiErrorType(data) THEN data.fields
    ELSE IF /\ data.kind = "object"
            /\ "error" \in DOMAIN data.fields
            /\ data.fields["error"][1] = "string"
    THEN [code |-> JStr(<<ToString(reply.status)>>), message |-> data.fields["error"]]
    ELSE [code |-> JStr(<<ToString(reply.status)>>),
          message |-> IF data.kind = "string" /\ Trim(data.text) # <<>>
                      THEN JStr(data.text)
                      ELSE IF reply.statusText # <<>>
                      THEN JStr(reply.statusText)
                      ELSE JStr(<<"Unknown API Error">>)]

NetworkError(message) ==
    [kind |-> "returned",
     response |-> [status |-> 0,
                   error |-> [code |-> JStr(<<"NETWORK_ERROR">>), message |-> JStr(message)]]]

\* what request() settles to, given how the fetch settled
RequestOutcome(options, reply) ==
    IF reply.settled = "rejected" THEN NetworkError(reply.message)
    ELSE LET data == ResponseData(reply)
         IN  IF data.kind = "unparsable"
             THEN NetworkError(<<"Unexpected token">>)
             ELSE IF /\ reply.status = 401
                     /\ ~IsPublic(options)
                     /\ IsApiErrorType(data)
                     /\ data.fields["code"] = JStr(<<"AUTH_REQUIRED">>)
             THEN [kind |-> "thrown", name |-> "AuthRequiredError",
                   message |-> IF data.fields["message"] = JNull
                               THEN <<"Authentication required">>
                               ELSE data.fields["message"][2]]
             ELSE IF ~ResponseOk(reply)
             THEN [kind |-> "returned",
                   response |-> [status |-> reply.status, error |-> ErrorPayload(reply, data)]]
             ELSE [kind |-> "returned",
                   response |-> [status |-> reply.status, data |-> data]]

InitApi ==
    /\ LoopUnused
    /\ AdapterUnused
    /\ ProcessJobUnused
    /\ PathUnused
    /\ BuilderUnused
    /\ IsolatorUnused
    /\ SingletonUnused
    /\ WalletUnused
    /\ CheckoutUnused
    /\ SendUnused
    /\ TokenUnused
    /\ apiPc = "called"
    /\ apiOptions \in { Some(o) : o \in FetchOptions }
    /\ apiHeaders = Null
    /\ apiTokenPromise = FALSE
    /\ apiSessionFetches = 0
    /\ apiSession = Null
    /\ apiFetched = Null
    /\ apiReply = Null
    /\ apiOutcome = Null

\* request(), up to its first await: the headers are built and either the
\* session is asked for a token or the fetch is issued
PrepareRequest ==
    /\ apiPc = "called"
    /\ LET options == apiOptions[1]
           headers == HeadersAppend(InitialHeaders(options), "apikey", SupabaseAnonKey)
       IN  IF WantsAuthorization(options, headers)
           THEN IF Truthy(options.token)
                THEN LET authorized == HeadersAppend(headers, "Authorization",
                                                     Bearer(options.token[1]))
                     IN  /\ apiHeaders' = Some(authorized)
                         /\ apiFetched' = Some(FetchRequest(options, authorized))
                         /\ apiPc' = "fetching"
                         /\ UNCHANGED <<apiTokenPromise, apiSessionFetches>>
                ELSE /\ apiHeaders' = Some(headers)
                     /\ apiTokenPromise' = TRUE
                     /\ apiSessionFetches' = apiSessionFetches + 1
                     /\ apiPc' = "getting_token"
                     /\ UNCHANGED apiFetched
           ELSE /\ apiHeaders' = Some(headers)
                /\ apiFetched' = Some(FetchRequest(options, headers))
                /\ apiPc' = "fetching"
                /\ UNCHANGED <<apiTokenPromise, apiSessionFetches>>
    /\ UNCHANGED <<apiOptions, apiSession, apiReply, apiOutcome>>
    /\ UNCHANGED exceptApi

\* getSession() resolves: the token, if any, goes into the headers and the
\* fetch is issued
SessionResolves ==
    /\ apiPc = "getting_token"
    /\ \E result \in SessionResults :
           LET token == TokenOfSession(result)
               headers == IF Truthy(token)
                          THEN HeadersAppend(apiHeaders[1], "Authorization", Bearer(token[1]))
                          ELSE apiHeaders[1]
           IN  /\ apiSession' = Some(result)
               /\ apiHeaders' = Some(headers)
               /\ apiFetched' = Some(FetchRequest(apiOptions[1], headers))
    /\ apiTokenPromise' = FALSE
    /\ apiPc' = "fetching"
    /\ UNCHANGED <<apiOptions, apiSessionFetches, apiReply, apiOutcome>>
    /\ UNCHANGED exceptApi

\* the fetch settles and request() with it
FetchSettles ==
    /\ apiPc = "fetching"
    /\ \E reply \in FetchReplies :
           /\ apiReply' = Some(reply)
           /\ apiOutcome' = Some(RequestOutcome(apiOptions[1], reply))
    /\ apiPc' = "settled"
    /\ UNCHANGED <<apiOptions, apiHeaders, apiTokenPromise, apiSessionFetches, apiSession,
                   apiFetched>>
    /\ UNCHANGED exceptApi

NextApi ==
    \/ PrepareRequest
    \/ SessionResolves
    \/ FetchSettles

SpecApi == InitApi /\ [][NextApi]_vars

----------------------------------------------------------------------------
(* initializeApiClient, _resetApiClient, getApiClient and the api object *)

MaxCalls == 4

\* a config field: undefined, the empty string, or a value
ConfigUrls == {Null, Some(<<>>), Some(<<"http://mock-supabase.co">>),
               Some(<<"http://mock-supabase.co", "/">>)}
ConfigKeys == {Null, Some(<<>>), Some(<<"mock-anon-key">>)}
ApiInitializerConfigs == [supabaseUrl : ConfigUrls, supabaseAnonKey : ConfigKeys]

\* the members of the api object
ApiAccessors == {"get", "post", "put", "patch", "delete", "ai", "billing", "notifications",
                 "organizations", "users", "wallet", "dialectic", "getSupabaseClient"}

\* !value for an optional string
Falsy(value) == value = Null \/ value = Some(<<>>)

\* supabaseUrl.replace(/\/$/, '') + '/functions/v1'
FunctionsUrl(supabaseUrl) ==
    (IF supabaseUrl # <<>> /\ supabaseUrl[Len(supabaseUrl)] = "/"
     THEN SubSeq(supabaseUrl, 1, Len(supabaseUrl) - 1)
     ELSE supabaseUrl) \o <<"/functions/v1">>

\* new ApiClient({supabase, supabaseUrl, supabaseAnonKey})
NewApiClient(id, config) ==
    [id |-> id,
     functionsUrl |-> FunctionsUrl(config.supabaseUrl[1]),
     supabaseAnonKey |-> config.supabaseAnonKey[1]]

Thrown(message) == [kind |-> "thrown", message |-> message]
Returned == [kind |-> "returned"]

\* faulty variant: an existing instance is not looked for
AlreadyInitialized_Unchecked(instance) == FALSE

AlreadyInitialized(instance) == instance # Null

InitSingleton ==
    /\ LoopUnused
    /\ AdapterUnused
    /\ ProcessJobUnused
    /\ PathUnused
    /\ BuilderUnused
    /\ IsolatorUnused
    /\ ApiUnused
    /\ WalletUnused
    /\ CheckoutUnused
    /\ SendUnused
    /\ TokenUnused
    /\ sgInstance = Null
    /\ sgCreated = 0
    /\ sgCalls = 0
    /\ sgLast = Null

InitializeApiClient ==
    /\ sgCalls < MaxCalls
    /\ sgCalls' = sgCalls + 1
    /\ \E config \in ApiInitializerConfigs :
           IF AlreadyInitialized(sgInstance)
           THEN /\ sgLast' = Some([op |-> "initializeApiClient", config |-> config,
                                   outcome |-> Thrown(<<"ApiClient already initialized">>)])
                /\ UNCHANGED <<sgInstance, sgCreated>>
           ELSE IF Falsy(config.supabaseUrl) \/ Falsy(config.supabaseAnonKey)
           THEN /\ sgLast' = Some([op |-> "initializeApiClient", config |-> config,
                                   outcome |-> Thrown(<<"Supabase URL and Anon Key are required",
                                                        " to initialize ApiClient">>)])
                /\ UNCHANGED <<sgInstance, sgCreated>>
           ELSE /\ sgInstance' = Some(NewApiClient(sgCreated + 1, config))
                /\ sgCreated' = sgCreated + 1
                /\ sgLast' = Some([op |-> "initializeApiClient", config |-> config,
                                   outcome |-> Returned])
    /\ UNCHANGED exceptSingleton

ResetApiClient ==
    /\ sgCalls < MaxCalls
    /\ sgCalls' = sgCalls + 1
    /\ sgInstance' = Null
    /\ sgLast' = Some([op |-> "_resetApiClient", outcome |-> Returned])
    /\ UNCHANGED sgCreated
    /\ UNCHANGED exceptSingleton

\* a member of the api object is used: each goes through getApiClient()
ApiAccessor ==
    /\ sgCalls < MaxCalls
    /\ sgCalls' = sgCalls + 1
    /\ \E member \in ApiAccessors :
           sgLast' = Some([op |-> "api", member |-> member,
                           outcome |-> IF sgInstance = Null
                                       THEN Thrown(<<"ApiClient not initialized",
                                                     ". Call initializeApiClient first.">>)
                                       ELSE Returned])
    /\ UNCHANGED <<sgInstance, sgCreated>>
    /\ UNCHANGED exceptSingleton

NextSingleton ==
    \/ InitializeApiClient
    \/ ResetApiClient
    \/ ApiAccessor

SpecSingleton == InitSingleton /\ [][NextSingleton]_vars

----------------------------------------------------------------------------
(* useWalletStore (packages/store/src/walletStore.ts) *)

MaxFetches == 3
MaxTime == 2

OrgIds == {"org-1", "org-2"}

\* a JS object used as a map: its keys are the DOMAIN
EmptyMap == [k \in {} |-> Null]
MapPut(map, key, value) ==
    [k \in DOMAIN map \cup {key} |-> IF k = key THEN value ELSE map[k]]
MapHas(map, key) == key \in DOMAIN map

Balances == {"100", "250"}

\* TokenWallet objects
TokenWallets ==
    [walletId : {"wallet-personal", "wallet-org-1", "wallet-org-2"},
     balance : Balances, updatedAt : 0..MaxTime]

\* the wallet the API holds for a target (null for the personal one)
WalletIdOf(target) ==
    IF target = Null THEN "wallet-personal"
    ELSE IF target = Some("org-1") THEN "wallet-org-1" ELSE "wallet-org-2"

\* how a getWalletInfo call ends: an ApiResponse, or it throws
WalletResponses(target) ==
    { [kind |-> "response", data |-> Some([walletId |-> WalletIdOf(target),
                                           balance |-> b, updatedAt |-> 0]),
       error |-> Null] : b \in Balances }
    \cup { [kind |-> "response", data |-> Null, error |-> Null],
           [kind |-> "response", data |-> Null,
            error |-> Some([message |-> "Failed to fetch", code |-> "FETCH_ERROR"])],
           [kind |-> "response", data |-> Null, error |-> Some([detail |-> "odd"])],
           [kind |-> "thrown", isError |-> TRUE, message |-> "Network failed"],
           [kind |-> "thrown", isError |-> FALSE] }

\* response.error as an ApiError
ErrorToSet(error) ==
    IF {"message", "code"} \subseteq DOMAIN error
    THEN error
    ELSE [message |-> "[object Object]", code |-> "UNKNOWN_API_ERROR"]

NetworkErrorOf(thrown) ==
    [message |-> IF thrown.isError THEN thrown.message
                 ELSE "An unknown network error occurred",
     code |-> "NETWORK_ERROR"]

\* walletData && typeof walletData === 'object' && 'walletId' in walletData
WalletToSet(data) ==
    IF data # Null /\ "walletId" \in DOMAIN data[1] THEN data ELSE Null

\* faulty variant: a thrown call leaves no error behind
LoadResult_SwallowingThrow(settled) ==
    IF settled.kind = "thrown"
    THEN [wallet |-> Null, error |-> Null]
    ELSE IF settled.error # Null
    THEN [wallet |-> Null, error |-> Some(ErrorToSet(settled.error[1]))]
    ELSE [wallet |-> WalletToSet(settled.data), error |-> Null]

\* the three ends of a load: what the store is given
LoadResult(settled) ==
    IF settled.kind = "thrown"
    THEN [wallet |-> Null, error |-> Some(NetworkErrorOf(settled))]
    ELSE IF settled.error # Null
    THEN [wallet |-> Null, error |-> Some(ErrorToSet(settled.error[1]))]
    ELSE [wallet |-> WalletToSet(settled.data), error |-> Null]

InitialWalletStateValues ==
    /\ wsPersonalWallet = Null
    /\ wsOrganizationWallets = EmptyMap
    /\ wsIsLoadingPersonalWallet = FALSE
    /\ wsIsLoadingOrgWallet = EmptyMap
    /\ wsPersonalWalletError = Null
    /\ wsOrgWalletErrors = EmptyMap
    /\ wsUserOrgTokenConsent = EmptyMap

IdleOrgStore == [userOrganizations |-> <<>>, currentOrganizationId |-> Null, isLoading |-> FALSE]

InitWalletLoad ==
    /\ LoopUnused
    /\ AdapterUnused
    /\ ProcessJobUnused
    /\ PathUnused
    /\ BuilderUnused
    /\ IsolatorUnused
    /\ ApiUnused
    /\ SingletonUnused
    /\ CheckoutUnused
    /\ SendUnused
    /\ TokenUnused
    /\ InitialWalletStateValues
    /\ wsOrgStore = Some(IdleOrgStore)
    /\ wsInFlight = {}
    /\ wsStarted = 0
    /\ wsNow = 0
    /\ wsLast = Null

walletLoadFrame == <<wsUserOrgTokenConsent, wsOrgStore, wsNow>>

\* loadPersonalWallet, up to its await
LoadPersonalWallet ==
    /\ wsStarted < MaxFetches
    /\ wsIsLoadingPersonalWallet' = TRUE
    /\ wsPersonalWalletError' = Null
    /\ wsInFlight' = wsInFlight \cup {[id |-> wsStarted + 1, target |-> Null, via |-> "load"]}
    /\ wsStarted' = wsStarted + 1
    /\ UNCHANGED <<wsPersonalWallet, wsOrganizationWallets, wsIsLoadingOrgWallet,
                   wsOrgWalletErrors, wsLast>>
    /\ UNCHANGED walletLoadFrame
    /\ UNCHANGED exceptWallet

\* loadPersonalWallet, from the end of getWalletInfo(null) on
PersonalWalletLoaded ==
    \E fetch \in wsInFlight :
        /\ fetch.target = Null
        /\ \E settled \in WalletResponses(Null) :
               LET result == LoadResult(settled)
               IN  /\ wsIsLoadingPersonalWallet' = FALSE
                   /\ wsPersonalWallet' = result.wallet
                   /\ wsPersonalWalletError' = result.error
                   /\ wsLast' = Some([op |-> "loadPersonalWallet", fetch |-> fetch.id,
                                      settled |-> settled])
        /\ wsInFlight' = wsInFlight \ {fetch}
        /\ UNCHANGED <<wsOrganizationWallets, wsIsLoadingOrgWallet, wsOrgWalletErrors, wsStarted>>
        /\ UNCHANGED walletLoadFrame
        /\ UNCHANGED exceptWallet

\* the start of loadOrganizationWallet(organizationId), up to its await
StartOrgLoad(organizationId, via) ==
    /\ wsStarted < MaxFetches
    /\ wsIsLoadingOrgWallet' = MapPut(wsIsLoadingOrgWallet, organizationId, TRUE)
    /\ wsOrgWalletErrors' = MapPut(wsOrgWalletErrors, organizationId, Null)
    /\ wsInFlight' = wsInFlight \cup {[id |-> wsStarted + 1, target |-> Some(organizationId),
                                       via |-> via]}
    /\ wsStarted' = wsStarted + 1
    /\ UNCHANGED <<wsPersonalWallet, wsOrganizationWallets, wsIsLoadingPersonalWallet,
                   wsPersonalWalletError>>
    /\ UNCHANGED walletLoadFrame
    /\ UNCHANGED exceptWallet

LoadOrganizationWallet ==
    \E organizationId \in OrgIds :
        /\ StartOrgLoad(organizationId, "load")
        /\ UNCHANGED wsLast

\* getOrLoadOrganizationWallet goes on to load unless the wallet is there
\* (also while isLoadingOrgWallet[organizationId] is set)
GetOrLoadProceeds(organizationId) ==
    ~MapHas(wsOrganizationWallets, organizationId) \/ wsOrganizationWallets[organizationId] = Null

\* getOrLoadOrganizationWallet, up to its await or its early return
GetOrLoadOrganizationWallet ==
    \E organizationId \in OrgIds :
        IF GetOrLoadProceeds(organizationId)
        THEN /\ StartOrgLoad(organizationId, "getOrLoad")
             /\ UNCHANGED wsLast
        ELSE /\ wsLast # Some([op |-> "getOrLoadOrganizationWallet", org |-> organizationId,
                               returned |-> wsOrganizationWallets[organizationId]])
             /\ wsLast' = Some([op |-> "getOrLoadOrganizationWallet", org |-> organizationId,
                                returned |-> wsOrganizationWallets[organizationId]])
             /\ UNCHANGED <<wsPersonalWallet, wsOrganizationWallets, wsIsLoadingPersonalWallet,
                            wsIsLoadingOrgWallet, wsPersonalWalletError, wsOrgWalletErrors,
                            wsInFlight, wsStarted>>
             /\ UNCHANGED walletLoadFrame
             /\ UNCHANGED exceptWallet

\* loadOrganizationWallet, from the end of getWalletInfo(organizationId) on;
\* getOrLoadOrganizationWallet then returns what the store holds
OrganizationWalletLoaded ==
    \E fetch \in wsInFlight :
        /\ fetch.target # Null
        /\ \E settled \in WalletResponses(fetch.target) :
               LET organizationId == fetch.target[1]
                   result == LoadResult(settled)
               IN  /\ wsIsLoadingOrgWallet' = MapPut(wsIsLoadingOrgWallet, organizationId, FALSE)
                   /\ wsOrganizationWallets'
                          = MapPut(wsOrganizationWallets, organizationId, result.wallet)
                   /\ wsOrgWalletErrors' = MapPut(wsOrgWalletErrors, organizationId, result.error)
                   /\ wsLast' = Some([op |-> IF fetch.via = "load" THEN "loadOrganizationWallet"
                                             ELSE "getOrLoadOrganizationWallet",
                                      org |-> organizationId, fetch |-> fetch.id,
                                      settled |-> settled, returned |-> result.wallet])
        /\ wsInFlight' = wsInFlight \ {fetch}
        /\ UNCHANGED <<wsPersonalWallet, wsIsLoadingPersonalWallet, wsPersonalWalletError,
                       wsStarted>>
        /\ UNCHANGED walletLoadFrame
        /\ UNCHANGED exceptWallet

NextWalletLoad ==
    \/ LoadPersonalWallet
    \/ PersonalWalletLoaded
    \/ LoadOrganizationWallet
    \/ GetOrLoadOrganizationWallet
    \/ OrganizationWalletLoaded

SpecWalletLoad == InitWalletLoad /\ [][NextWalletLoad]_vars

----------------------------------------------------------------------------
(* useWalletStore: _handleWalletUpdateNotification *)

\* wallets as the loading actions put them into the store
StoredWallet(target) ==
    {Null} \cup { Some([walletId |-> WalletIdOf(target), balance |-> b, updatedAt |-> 0]) :
                      b \in Balances }

StoredOrganizationWallets ==
    UNION { { m \in [orgs -> UNION { StoredWallet(Some(o)) : o \in OrgIds }] :
                  \A o \in orgs : m[o] \in StoredWallet(Some(o)) }
            : orgs \in SUBSET OrgIds }

WalletUpdatePayloads ==
    [walletId : {"wallet-personal", "wallet-org-1", "wallet-org-2", "unknown-wallet-id"},
     newBalance : Balances \cup {"9999"}]

\* faulty variant: the first loaded organization wallet is taken, whatever its id
OrgWalletEntry_AnyLoaded(wallets, walletId) ==
    { orgId \in DOMAIN wallets : wallets[orgId] # Null }

\* Object.entries(organizationWallets).find(([, wallet]) => wallet?.walletId === walletId)
OrgWalletEntry(wallets, walletId) ==
    { orgId \in DOMAIN wallets : wallets[orgId] # Null /\ wallets[orgId][1].walletId = walletId }

\* {...wallet, balance: newBalance, updatedAt: new Date()}
UpdatedWallet(wallet, newBalance, now) ==
    [wallet EXCEPT !.balance = newBalance, !.updatedAt = now]

InitWalletNotify ==
    /\ LoopUnused
    /\ AdapterUnused
    /\ ProcessJobUnused
    /\ PathUnused
    /\ BuilderUnused
    /\ IsolatorUnused
    /\ ApiUnused
    /\ SingletonUnused
    /\ CheckoutUnused
    /\ SendUnused
    /\ TokenUnused
    /\ wsPersonalWallet \in StoredWallet(Null)
    /\ wsOrganizationWallets \in StoredOrganizationWallets
    /\ wsIsLoadingPersonalWallet = FALSE
    /\ wsIsLoadingOrgWallet = [o \in DOMAIN wsOrganizationWallets |-> FALSE]
    /\ wsPersonalWalletError = Null
    /\ wsOrgWalletErrors = [o \in DOMAIN wsOrganizationWallets |-> Null]
    /\ wsUserOrgTokenConsent = EmptyMap
    /\ wsOrgStore = Some(IdleOrgStore)
    /\ wsInFlight = {}
    /\ wsStarted = 0
    /\ wsNow = 1
    /\ wsLast = Null

HandleWalletUpdateNotification ==
    \E payload \in WalletUpdatePayloads :
        LET matching == OrgWalletEntry(wsOrganizationWallets, payload.walletId)
        IN  /\ wsLast' = Some([op |-> "_handleWalletUpdateNotification", payload |-> payload,
                               at |-> wsNow, outcome |-> "returned"])
            /\ IF wsPersonalWallet # Null /\ wsPersonalWallet[1].walletId = payload.walletId
               THEN /\ wsPersonalWallet'
                           = Some(UpdatedWallet(wsPersonalWallet[1], payload.newBalance, wsNow))
                    /\ UNCHANGED wsOrganizationWallets
               ELSE IF matching # {}
               THEN LET orgId == CHOOSE o \in matching : TRUE
                    IN  /\ wsOrganizationWallets'
                               = MapPut(wsOrganizationWallets, orgId,
                                        Some(UpdatedWallet(wsOrganizationWallets[orgId][1],
                                                           payload.newBalance, wsNow)))
                        /\ UNCHANGED wsPersonalWallet
               ELSE UNCHANGED <<wsPersonalWallet, wsOrganizationWallets>>
            /\ UNCHANGED <<wsIsLoadingPersonalWallet, wsIsLoadingOrgWallet, wsPersonalWalletError,
                           wsOrgWalletErrors, wsUserOrgTokenConsent, wsOrgStore, wsInFlight,
                           wsStarted, wsNow>>
            /\ UNCHANGED exceptWallet

\* time passes
ClockTicks ==
    /\ wsNow < MaxTime
    /\ wsNow' = wsNow + 1
    /\ UNCHANGED <<wsPersonalWallet, wsOrganizationWallets, wsIsLoadingPersonalWallet,
                   wsIsLoadingOrgWallet, wsPersonalWalletError, wsOrgWalletErrors,
                   wsUserOrgTokenConsent, wsOrgStore, wsInFlight, wsStarted, wsLast>>
    /\ UNCHANGED exceptWallet

NextWalletNotify ==
    \/ HandleWalletUpdateNotification
    \/ ClockTicks

SpecWalletNotify == InitWalletNotify /\ [][NextWalletNotify]_vars

----------------------------------------------------------------------------
(* useWalletStore: determineChatWallet *)

\* token_usage_policy of an organization: missing, the two known values, a foreign one
TokenUsagePolicies ==
    {Null, Some("member_tokens"), Some("organization_tokens"), Some("shared_tokens")}

Organizations == [id : OrgIds, token_usage_policy : TokenUsagePolicies]

\* userOrganizations: each organization listed at most once
OrganizationLists ==
    {<<>>} \cup { <<o>> : o \in Organizations }
           \cup { <<o, p>> : o \in { q \in Organizations : q.id = "org-1" },
                             p \in { q \in Organizations : q.id = "org-2" } }

OrgStoreStates ==
    [userOrganizations : OrganizationLists,
     currentOrganizationId : {Null} \cup { Some(o) : o \in OrgIds },
     isLoading : BOOLEAN]

\* newChatContextOrgId: string | null | undefined
ChatContexts ==
    {[kind |-> "null"], [kind |-> "undefined"]}
        \cup { [kind |-> "string", id |-> id] : id \in {"", "personal"} \cup OrgIds }

\* !newChatContextOrgId
ContextFalsy(context) == context.kind # "string" \/ context.id = ""

\* userOrganizations.find(org => org.id === id), Null when none is found
FindOrganization(organizations, id) ==
    LET hits == { i \in 1..Len(organizations) : organizations[i].id = id }
    IN  IF hits = {} THEN Null
        ELSE Some(organizations[CHOOSE i \in hits : \A j \in hits : i <= j])

\* faulty variant: a missing policy is not defaulted
OrgTokenPolicy_NotDefaulted(details) ==
    IF details.token_usage_policy = Null THEN "" ELSE details.token_usage_policy[1]

\* relevantOrgDetails.token_usage_policy || 'member_tokens'
OrgTokenPolicy(details) ==
    IF details.token_usage_policy = Null \/ details.token_usage_policy = Some("")
    THEN "member_tokens"
    ELSE details.token_usage_policy[1]

DetermineChatWallet(context, orgStoreState, currentConsentState) ==
    LET relevantOrgDetails ==
            IF ~ContextFalsy(context) /\ context.id # "personal"
            THEN FindOrganization(orgStoreState.userOrganizations, context.id)
            ELSE Null
    IN  IF ContextFalsy(context) \/ context.id = "personal"
        THEN [outcome |-> "use_personal_wallet"]
        ELSE IF relevantOrgDetails = Null
        THEN IF orgStoreState.currentOrganizationId = Some(context.id) /\ orgStoreState.isLoading
             THEN [outcome |-> "loading"]
             ELSE [outcome |-> "error",
                   message |-> <<"Organization details for ", context.id,
                                 " are not available in the current list.">>]
        ELSE LET orgTokenPolicy == OrgTokenPolicy(relevantOrgDetails[1])
             IN  IF orgTokenPolicy = "organization_tokens"
                 THEN [outcome |-> "org_wallet_not_available_policy_org", orgId |-> context.id]
                 ELSE IF orgTokenPolicy = "member_tokens"
                 THEN IF ~MapHas(currentConsentState, context.id)
                      THEN [outcome |-> "user_consent_required", orgId |-> context.id]
                      ELSE IF currentConsentState[context.id] = Some(TRUE)
                      THEN [outcome |-> "use_personal_wallet_for_org", orgId |-> context.id]
                      ELSE IF currentConsentState[context.id] = Some(FALSE)
                      THEN [outcome |-> "user_consent_refused", orgId |-> context.id]
                      ELSE [outcome |-> "user_consent_required", orgId |-> context.id]
                 ELSE [outcome |-> "error",
                       message |-> <<"Unexpected token usage policy for ", context.id, ": ",
                                     orgTokenPolicy>>]

InitChatWallet ==
    /\ LoopUnused
    /\ AdapterUnused
    /\ ProcessJobUnused
    /\ PathUnused
    /\ BuilderUnused
    /\ IsolatorUnused
    /\ ApiUnused
    /\ SingletonUnused
    /\ CheckoutUnused
    /\ SendUnused
    /\ TokenUnused
    /\ InitialWalletStateValues
    /\ wsOrgStore \in { Some(s) : s \in OrgStoreStates }
    /\ wsInFlight = {}
    /\ wsStarted = 0
    /\ wsNow = 0
    /\ wsLast = Null

chatWalletFrame ==
    <<wsPersonalWallet, wsOrganizationWallets, wsIsLoadingPersonalWallet, wsIsLoadingOrgWallet,
      wsPersonalWalletError, wsOrgWalletErrors, wsOrgStore, wsInFlight, wsStarted, wsNow>>

SetUserOrgTokenConsent ==
    \E orgId \in OrgIds, consent \in BOOLEAN :
        /\ wsUserOrgTokenConsent' = MapPut(wsUserOrgTokenConsent, orgId, Some(consent))
        /\ wsLast' = Some([op |-> "setUserOrgTokenConsent"])
        /\ UNCHANGED chatWalletFrame
        /\ UNCHANGED exceptWallet

ClearUserOrgTokenConsent ==
    \E orgId \in OrgIds :
        /\ wsUserOrgTokenConsent' = MapPut(wsUserOrgTokenConsent, orgId, Null)
        /\ wsLast' = Some([op |-> "clearUserOrgTokenConsent"])
        /\ UNCHANGED chatWalletFrame
        /\ UNCHANGED exceptWallet

CallDetermineChatWallet ==
    \E context \in ChatContexts :
        /\ wsLast' = Some([op |-> "determineChatWallet", context |-> context,
                           decision |-> DetermineChatWallet(context, wsOrgStore[1],
                                                            wsUserOrgTokenConsent)])
        /\ UNCHANGED wsUserOrgTokenConsent
        /\ UNCHANGED chatWalletFrame
        /\ UNCHANGED exceptWallet

NextChatWallet ==
    \/ SetUserOrgTokenConsent
    \/ ClearUserOrgTokenConsent
    \/ CallDetermineChatWallet

SpecChatWallet == InitChatWallet /\ [][NextChatWallet]_vars

----------------------------------------------------------------------------
(* handleCheckoutSessionCompleted (Stripe webhook handler) *)

MaxDeliveries == 2

CheckoutModes == {"payment", "subscription"}

\* rows of payment_transactions the handler can find for the session
PaymentTransactions ==
    [status : {"PENDING"}, tokens_to_award : {100, 1000}, gateway_transaction_id : {Null}]
        \cup [status : {"COMPLETED", "FAILED"}, tokens_to_award : {0, 100},
              gateway_transaction_id : {Some("cs_old")}]

\* the id of the checkout session of a delivery's event
SessionIdOf(delivery) == <<"cs_event_", delivery>>

\* faulty variant: only a completed transaction counts as processed
AlreadyProcessed_CompletedOnly(row) == row.status = "COMPLETED"

\* the transaction was brought to an end by an earlier event
AlreadyProcessed(row) == row.status \in {"COMPLETED", "FAILED"}

\* faulty variant: a failed upsert of user_subscriptions does not stop the handler
UpsertFailureStops_Ignored(upsertError) == FALSE

UpsertFailureStops(upsertError) == upsertError

\* context.updatePaymentTransaction(id, updates, event.id)
UpdatePaymentTransaction(row, updates) ==
    [row EXCEPT !.status = updates.status,
                !.gateway_transaction_id =
                    IF "gateway_transaction_id" \in DOMAIN updates
                    THEN Some(updates.gateway_transaction_id) ELSE @]

Failure(gatewayId, error, tokens) ==
    [kind |-> "returned", success |-> FALSE, paymentGatewayTransactionId |-> gatewayId,
     tokensAwarded |-> tokens, error |-> Some(error)]

InitCheckout ==
    /\ LoopUnused
    /\ AdapterUnused
    /\ ProcessJobUnused
    /\ PathUnused
    /\ BuilderUnused
    /\ IsolatorUnused
    /\ ApiUnused
    /\ SingletonUnused
    /\ WalletUnused
    /\ SendUnused
    /\ TokenUnused
    /\ coPc = "start"
    /\ coDelivery = 1
    /\ coMode \in CheckoutModes
    /\ coUpdateFirst \in BOOLEAN
    /\ coRow \in {Null} \cup { Some(row) : row \in PaymentTransactions }
    /\ coSucceeded = {}
    /\ coUpdates = <<>>
    /\ coRecorded = <<>>
    /\ coResult = Null

checkoutFrame == <<coDelivery, coMode, coUpdateFirst>>

\* select('*').eq('id', internalPaymentId).single(), then the status check
FindPaymentTransaction ==
    /\ coPc = "start"
    /\ IF coRow = Null
       THEN /\ coResult' = Some(Failure(Some(SessionIdOf(coDelivery)),
                                        "Payment transaction not found", Null))
            /\ coPc' = "done"
       ELSE IF AlreadyProcessed(coRow[1])
       THEN /\ coResult' = Some([kind |-> "returned", success |-> TRUE,
                                 paymentGatewayTransactionId |-> coRow[1].gateway_transaction_id,
                                 tokensAwarded |-> Some(coRow[1].tokens_to_award),
                                 error |-> IF coRow[1].status = "FAILED"
                                           THEN Some("was previously marked as FAILED")
                                           ELSE Null])
            /\ coPc' = "done"
       ELSE /\ coResult' = Null
            /\ coPc' = IF coMode = "subscription" THEN "retrieve" ELSE "update"
    /\ UNCHANGED <<coRow, coSucceeded, coUpdates, coRecorded>>
    /\ UNCHANGED checkoutFrame
    /\ UNCHANGED exceptCheckout

\* stripe.subscriptions.retrieve(subscriptionId)
RetrieveSubscription ==
    /\ coPc = "retrieve"
    /\ \E rejected \in BOOLEAN :
           IF rejected
           THEN /\ coRow' = Some(UpdatePaymentTransaction(coRow[1], [status |-> "FAILED"]))
                /\ coUpdates' = Append(coUpdates, [delivery |-> coDelivery, status |-> "FAILED"])
                /\ coResult' = Some([kind |-> "thrown"])
                /\ coPc' = "done"
                /\ UNCHANGED coSucceeded
           ELSE /\ coSucceeded' = coSucceeded \cup {"retrieve"}
                /\ coPc' = "plan"
                /\ UNCHANGED <<coRow, coUpdates, coResult>>
    /\ UNCHANGED coRecorded
    /\ UNCHANGED checkoutFrame
    /\ UNCHANGED exceptCheckout

\* from('subscription_plans').select().eq('stripe_price_id', itemId)
LookupSubscriptionPlan ==
    /\ coPc = "plan"
    /\ \E found \in BOOLEAN :
           IF ~found
           THEN /\ coRow' = Some(UpdatePaymentTransaction(coRow[1], [status |-> "FAILED"]))
                /\ coUpdates' = Append(coUpdates, [delivery |-> coDelivery, status |-> "FAILED"])
                /\ coResult' = Some(Failure(Some(SessionIdOf(coDelivery)),
                                            "Could not find internal subscription plan ID", Null))
                /\ coPc' = "done"
                /\ UNCHANGED coSucceeded
           ELSE /\ coSucceeded' = coSucceeded \cup {"plan"}
                /\ coPc' = IF coUpdateFirst THEN "update" ELSE "upsert"
                /\ UNCHANGED <<coRow, coUpdates, coResult>>
    /\ UNCHANGED coRecorded
    /\ UNCHANGED checkoutFrame
    /\ UNCHANGED exceptCheckout

\* from('user_subscriptions').upsert(...)
UpsertUserSubscription ==
    /\ coPc = "upsert"
    /\ \E upsertError \in BOOLEAN :
           /\ coSucceeded' = IF upsertError THEN coSucceeded ELSE coSucceeded \cup {"upsert"}
           /\ IF coUpdateFirst
              THEN IF UpsertFailureStops(upsertError)
                   THEN /\ coResult' = Some(Failure(Some(SessionIdOf(coDelivery)),
                                                    "Failed to upsert user_subscription", Some(0)))
                        /\ coPc' = "done"
                   ELSE /\ coPc' = "award"
                        /\ UNCHANGED coResult
              ELSE /\ coPc' = "update"
                   /\ coResult' = IF UpsertFailureStops(upsertError)
                                  THEN Some(Failure(Some(SessionIdOf(coDelivery)),
                                                    "Failed to upsert user_subscription", Some(0)))
                                  ELSE Null
    /\ UNCHANGED <<coRow, coUpdates, coRecorded>>
    /\ UNCHANGED checkoutFrame
    /\ UNCHANGED exceptCheckout

\* updatePaymentTransaction(id, {status: 'COMPLETED', gateway_transaction_id: session.id}, event.id)
CompletePaymentTransaction ==
    /\ coPc = "update"
    /\ coRow' = Some(UpdatePaymentTransaction(coRow[1],
                         [status |-> "COMPLETED",
                          gateway_transaction_id |-> SessionIdOf(coDelivery)]))
    /\ coUpdates' = Append(coUpdates, [delivery |-> coDelivery, status |-> "COMPLETED"])
    /\ coPc' = IF coResult # Null THEN "done"
               ELSE IF coMode = "subscription" /\ coUpdateFirst THEN "upsert"
               ELSE "award"
    /\ UNCHANGED <<coSucceeded, coRecorded, coResult>>
    /\ UNCHANGED checkoutFrame
    /\ UNCHANGED exceptCheckout

\* tokenWalletService.recordTransaction({walletId, type: 'CREDIT_PURCHASE', amount, ...})
AwardTokens ==
    /\ coPc = "award"
    /\ coRecorded' = Append(coRecorded, coDelivery)
    /\ \E rejected \in BOOLEAN :
           IF rejected
           THEN /\ coRow' = Some(UpdatePaymentTransaction(coRow[1],
                                     [status |-> "TOKEN_AWARD_FAILED"]))
                /\ coUpdates' = Append(coUpdates, [delivery |-> coDelivery,
                                                   status |-> "TOKEN_AWARD_FAILED"])
                /\ coResult' = Some(Failure(Some(SessionIdOf(coDelivery)),
                                            "Failed to award tokens for payment transaction",
                                            Some(0)))
           ELSE /\ coResult' = Some([kind |-> "returned", success |-> TRUE,
                                     paymentGatewayTransactionId
                                         |-> Some(SessionIdOf(coDelivery)),
                                     tokensAwarded |-> Some(coRow[1].tokens_to_award),
                                     error |-> Null])
                /\ UNCHANGED <<coRow, coUpdates>>
    /\ coPc' = "done"
    /\ UNCHANGED coSucceeded
    /\ UNCHANGED checkoutFrame
    /\ UNCHANGED exceptCheckout

\* Stripe delivers another checkout.session.completed event for the transaction
DeliverAgain ==
    /\ coPc = "done"
    /\ coDelivery < MaxDeliveries
    /\ coRow # Null
    /\ AlreadyProcessed(coRow[1])
    /\ coDelivery' = coDelivery + 1
    /\ coPc' = "start"
    /\ coSucceeded' = {}
    /\ coResult' = Null
    /\ UNCHANGED <<coMode, coUpdateFirst, coRow, coUpdates, coRecorded>>
    /\ UNCHANGED exceptCheckout

NextCheckout ==
    \/ FindPaymentTransaction
    \/ RetrieveSubscription
    \/ LookupSubscriptionPlan
    \/ UpsertUserSubscription
    \/ CompletePaymentTransaction
    \/ AwardTokens
    \/ DeliverAgain

SpecCheckout == InitCheckout /\ [][NextCheckout]_vars

----------------------------------------------------------------------------
(* handleSendMessage (packages/store/src/ai.SendMessage.ts) *)

TempUserMessageId == "temp-user-1"
TempChatId == "temp-chat-1"

\* a ChatMessage, with the fields handleSendMessage reads or writes
ChatMessage(id, role, chatId, status) ==
    [id |-> id, role |-> role, chat_id |-> chatId, status |-> status]

\* messages of the chat the user has open, as the server stored them
StoredMessage(id, role) == ChatMessage(id, role, Some("chat-1"), "sent")

StoredHistories ==
    { <<>>,
      <<StoredMessage("u1", "user"), StoredMessage("a1", "assistant")>>,
      <<StoredMessage("u1", "user"), StoredMessage("a1", "assistant"),
        StoredMessage("u2", "user"), StoredMessage("a2", "assistant")>> }

IdsOf(messages) == { messages[i].id : i \in 1..Len(messages) }

\* the AiState fields handleSendMessage reads or writes, for a user with at
\* most one chat loaded; a rewind target is a message of the current chat
AiStates ==
    { [messagesByChatId |-> msgs, selectedMessagesMap |-> sel, chatsByContext |-> chats,
       currentChatId |-> cur, newChatContext |-> ctx, rewindTargetMessageId |-> target,
       selectedProviderId |-> provider, isLoadingAiResponse |-> loading, aiError |-> Null,
       pendingAction |-> Null] :
        msgs \in {EmptyMap} \cup { [c \in {"chat-1"} |-> h] : h \in StoredHistories },
        sel \in {EmptyMap, [c \in {"chat-1"} |-> [m \in {"u1", "a1"} |-> m = "a1"]]},
        chats \in { [personal |-> <<>>, orgs |-> EmptyMap],
                    [personal |-> <<[id |-> "chat-1", organization_id |-> Null]>>,
                     orgs |-> EmptyMap],
                    [personal |-> <<[id |-> "chat-1", organization_id |-> Null]>>,
                     orgs |-> [o \in {"org-1"} |->
                                 <<[id |-> "chat-0", organization_id |-> Some("org-1")]>>]] },
        cur \in {Null, Some("chat-1")},
        ctx \in {Null, Some("personal"), Some("org-1")},
        target \in {Null, Some("u1"), Some("u2")},
        provider \in {Null, Some("provider-1")},
        loading \in BOOLEAN }

ReachableAiStates ==
    { s \in AiStates :
        /\ s.rewindTargetMessageId # Null =>
              /\ s.currentChatId = Some("chat-1")
              /\ "chat-1" \in DOMAIN s.messagesByChatId
              /\ s.rewindTargetMessageId[1] \in IdsOf(s.messagesByChatId["chat-1"])
        /\ "chat-1" \in DOMAIN s.selectedMessagesMap =>
              /\ "chat-1" \in DOMAIN s.messagesByChatId
              /\ s.messagesByChatId["chat-1"] # <<>> }

WalletStatuses ==
    {"ok", "loading", "error", "consent_required", "consent_refused",
     "policy_org_wallet_unavailable", "unknown"}

\* walletService.getActiveWalletInfo(), authService.getCurrentUser() and
\* authService.getSession()?.access_token
SendEnvironments ==
    [walletStatus : WalletStatuses, walletOrgId : {Null, Some("org-1")},
     currentUser : BOOLEAN, token : {Null, Some("token-1")}]

\* faulty variant: the wallet check lets a loading wallet through
WalletRejects_LoadingPasses(env) == env.walletStatus \notin {"ok", "loading"}

\* the switch over activeWalletInfo.status returns for everything but 'ok'
WalletRejects(env) == env.walletStatus # "ok"

\* the state change of the guard that rejects the call; Null when none does
GuardRejection(ai, env) ==
    IF WalletRejects(env)
    THEN IF env.walletStatus = "loading"
         THEN Some([aiError |-> Some(IF env.currentUser THEN <<"Wallet loading.">>
                                      ELSE <<"Auth required.">>),
                    pendingAction |-> IF env.currentUser THEN Null ELSE Some("SEND_MESSAGE"),
                    login |-> ~env.currentUser])
         ELSE Some([aiError |-> Some(<<"Wallet issue.">>), pendingAction |-> ai.pendingAction,
                    login |-> FALSE])
    ELSE IF env.token = Null
    THEN Some([aiError |-> Some(<<"Auth required.">>), pendingAction |-> Some("SEND_MESSAGE"),
               login |-> TRUE])
    ELSE IF ai.selectedProviderId = Null
    THEN Some([aiError |-> Some(<<"No AI provider selected.">>), pendingAction |-> ai.pendingAction,
               login |-> FALSE])
    ELSE Null

\* aiStateService.addOptimisticUserMessage(message, inputChatId): the chat
\* the message goes to
OptimisticChatId(ai, inputChatId) ==
    IF inputChatId # Null THEN inputChatId[1]
    ELSE IF ai.currentChatId # Null THEN ai.currentChatId[1]
    ELSE TempChatId

\* aiStateService.addOptimisticUserMessage(message, inputChatId): the state
\* with the pending user message at the end of that chat
AddOptimisticUserMessage(ai, inputChatId) ==
    LET chatId == OptimisticChatId(ai, inputChatId)
        before == IF chatId \in DOMAIN ai.messagesByChatId
                  THEN ai.messagesByChatId[chatId] ELSE <<>>
    IN  [ai EXCEPT !.messagesByChatId =
            MapPut(@, chatId,
                   Append(before, ChatMessage(TempUserMessageId, "user", Some(chatId),
                                              "pending")))]

\* finalContextMessages, from the state read at the start of the call
FinalContextMessages(ai, optimisticChatId) ==
    IF optimisticChatId \in DOMAIN ai.messagesByChatId
    THEN LET storedMessages == ai.messagesByChatId[optimisticChatId]
             currentSelections == IF optimisticChatId \in DOMAIN ai.selectedMessagesMap
                                  THEN ai.selectedMessagesMap[optimisticChatId]
                                  ELSE EmptyMap
             selected(m) == /\ m.id # TempUserMessageId
                            /\ m.id \in DOMAIN currentSelections
                            /\ currentSelections[m.id]
             kept == SelectSeq(storedMessages, selected)
         IN  [i \in 1..Len(kept) |-> [role |-> kept[i].role, id |-> kept[i].id]]
    ELSE <<>>

\* the locals of a call that got past the guards, and the request
\* coreMessageProcessing builds from them
SendLocals(ai, env, inputChatId) ==
    LET effectiveChatIdForApi == IF inputChatId # Null THEN inputChatId
                                 ELSE ai.currentChatId
        organizationIdForApi ==
            IF effectiveChatIdForApi = Null
            THEN IF ai.newChatContext # Null /\ ai.newChatContext # Some("personal")
                 THEN ai.newChatContext ELSE Null
            ELSE env.walletOrgId
    IN  [inputChatId |-> inputChatId,
         optimisticMessageChatId |-> OptimisticChatId(ai, inputChatId),
         effectiveChatIdForApi |-> effectiveChatIdForApi,
         organizationIdForApi |-> organizationIdForApi,
         currentRewindTargetId |-> ai.rewindTargetMessageId,
         newChatContext |-> ai.newChatContext,
         contextMessages |-> FinalContextMessages(ai, OptimisticChatId(ai, inputChatId))]

\* the ChatApiRequest built by coreMessageProcessing; Null for a field the
\* spread leaves out
ChatApiRequest(ai, locals) ==
    [providerId |-> ai.selectedProviderId[1],
     chatId |-> locals.effectiveChatIdForApi,
     organizationId |-> locals.organizationIdForApi,
     rewindFromMessageId |-> locals.currentRewindTargetId,
     contextMessages |-> locals.contextMessages]

\* the options sendChatMessage posts with: the caller's Authorization header
\* and a plain object as body
ChatPostOptions ==
    [isPublic |-> Null, token |-> Null,
     authorizationHeader |-> Some(Bearer(<<"token-1">>)),
     contentTypeHeader |-> Null, body |-> "plain_object"]

\* error bodies of the chat function
ChatErrorBodies ==
    { [kind |-> "object", fields |-> [code |-> JStr(<<c>>), message |-> m]] :
        c \in {"AUTH_REQUIRED", "TOKEN_EXPIRED", "INVALID_INPUT"},
        m \in {JStr(<<"Please log in">>), JNull} }
    \cup { [kind |-> "object", fields |-> [error |-> JStr(<<"boom">>)]] }

\* how the fetch of the chat function settles when the message is not answered
ChatFailureReplies ==
    { [settled |-> "rejected", message |-> <<"Failed to fetch">>] }
    \cup { [settled |-> "resolved", status |-> st, statusText |-> StatusTexts[st],
            contentType |-> Some("application/json"), body |-> b] :
              st \in {401, 500}, b \in ChatErrorBodies }
    \cup { [settled |-> "resolved", status |-> 204, statusText |-> StatusTexts[204],
            contentType |-> Null, body |-> [kind |-> "string", text |-> <<>>]] }

\* the chat the server answers about: the request's, or one it creates
ServerChatId(request) == IF request.chatId # Null THEN request.chatId[1] ELSE "chat-new"

\* ChatHandlerSuccessResponse bodies for a request, every field optional
ChatSuccessBodies(request) ==
    { [kind |-> "chat", userMessage |-> um, assistantMessage |-> am, chatId |-> cid,
       isRewind |-> rw] :
        um \in {Null, Some(ChatMessage("u-new", "user", Some(ServerChatId(request)), "sent"))},
        am \in {Null} \cup { Some(ChatMessage("a-new", "assistant", c, "sent")) :
                               c \in {Null, Some(ServerChatId(request))} },
        cid \in {Null, Some(ServerChatId(request))},
        rw \in {Null, Some(request.rewindFromMessageId # Null)} }

\* what callChatApi settles to: ApiClient.request's outcome for the reply
CallChatApi(request, answer) ==
    IF answer.kind = "failure"
    THEN RequestOutcome(ChatPostOptions, answer.reply)
    ELSE [kind |-> "returned", response |-> [status |-> 200, data |-> answer.body]]

ChatAnswers(request) ==
    { [kind |-> "failure", reply |-> r] : r \in ChatFailureReplies }
    \cup { [kind |-> "success", body |-> b] : b \in ChatSuccessBodies(request) }

ProcessFailure(error, errorCode) ==
    [success |-> FALSE, error |-> Some(error), errorCode |-> Some(errorCode),
     finalUserMessage |-> Null, assistantMessage |-> Null, newlyCreatedChatId |-> Null,
     wasRewind |-> Null]

\* the catch of coreMessageProcessing gives every thrown error one code
ThrownErrorCode(outcome) == <<"UNEXPECTED_PROCESSING_ERROR">>

\* coreMessageProcessing, from the settling of callChatApi on
CoreMessageProcessing(outcome) ==
    IF outcome.kind = "thrown"
    THEN ProcessFailure(outcome.message, ThrownErrorCode(outcome))
    ELSE LET response == outcome.response
         IN  IF "error" \in DOMAIN response
             THEN ProcessFailure(
                      IF response.error.message[1] = "string" /\ response.error.message[2] # <<>>
                      THEN response.error.message[2] ELSE <<"API error">>,
                      IF response.error.code[2] # <<>>
                      THEN response.error.code[2] ELSE <<"API_ERROR">>)
             ELSE IF response.data.kind = "null"
             THEN ProcessFailure(<<"API error">>, <<"API_ERROR">>)
             ELSE IF response.data.kind = "chat"
             THEN [success |-> TRUE, error |-> Null, errorCode |-> Null,
                   finalUserMessage |-> response.data.userMessage,
                   assistantMessage |-> response.data.assistantMessage,
                   newlyCreatedChatId |-> response.data.chatId,
                   wasRewind |-> response.data.isRewind]
             ELSE [success |-> TRUE, error |-> Null, errorCode |-> Null,
                   finalUserMessage |-> Null, assistantMessage |-> Null,
                   newlyCreatedChatId |-> Null, wasRewind |-> Null]

MapRemove(map, key) == [k \in DOMAIN map \ {key} |-> map[k]]

\* state.messagesByChatId[chatId] || []
MessagesOf(state, chatId) ==
    IF chatId \in DOMAIN state.messagesByChatId THEN state.messagesByChatId[chatId] ELSE <<>>

HasId(messages, id) == \E i \in 1..Len(messages) : messages[i].id = id

\* faulty variant: the filter keeps every message
WithoutOptimistic_Kept(messages) == messages

\* chatMsgs.filter(msg => msg.id !== tempUserMessageId)
WithoutOptimistic(messages) ==
    LET notTemp(m) == m.id # TempUserMessageId
    IN  SelectSeq(messages, notTemp)

IsAuthErrorCode(errorCode) ==
    errorCode = Some(<<"AUTH_REQUIRED">>) \/ errorCode = Some(<<"TOKEN_EXPIRED">>)

\* the state after the branch for a failed send
FailureUpdate(state, locals, result) ==
    LET chat == locals.optimisticMessageChatId
        newMsgsByChatId == MapPut(state.messagesByChatId, chat,
                                  WithoutOptimistic(MessagesOf(state, chat)))
    IN  IF IsAuthErrorCode(result.errorCode)
        THEN [state EXCEPT !.aiError = IF result.error # Null /\ result.error # Some(<<>>)
                                       THEN result.error
                                       ELSE Some(<<"Authentication required.">>),
                           !.isLoadingAiResponse = FALSE,
                           !.pendingAction = Some("SEND_MESSAGE"),
                           !.messagesByChatId = newMsgsByChatId]
        ELSE [state EXCEPT !.aiError = IF result.error # Null /\ result.error # Some(<<>>)
                                       THEN result.error
                                       ELSE Some(<<"Failed to send message.">>),
                           !.isLoadingAiResponse = FALSE,
                           !.messagesByChatId = newMsgsByChatId]

\* the pendingActionDetails stored for replay after login
PendingActionDetails(ai, locals) ==
    [endpoint |-> "chat", method |-> "POST", returnPath |-> "chat",
     body |-> [chatId |-> locals.effectiveChatIdForApi,
               organizationId |-> locals.newChatContext,
               providerId |-> ai.selectedProviderId[1],
               contextMessages |-> locals.contextMessages]]

\* faulty variant: the update for a missing chat id leaves the loading mark
MissingChatIdUpdate_StillLoading(state) ==
    [state EXCEPT !.aiError = Some(<<"Internal error: Chat ID missing.">>)]

\* the update when neither the response nor the assistant message names a chat
MissingChatIdUpdate(state) ==
    [state EXCEPT !.isLoadingAiResponse = FALSE,
                  !.aiError = Some(<<"Internal error: Chat ID missing.">>)]

\* isActualRewind: what the server said, else what the call was made with
IsActualRewind(locals, result) ==
    IF result.wasRewind # Null THEN result.wasRewind[1]
    ELSE locals.inputChatId # Null /\ locals.currentRewindTargetId # Null

\* actualNewChatId: Null when both sources are missing
ActualNewChatId(result) ==
    IF result.newlyCreatedChatId # Null THEN result.newlyCreatedChatId
    ELSE result.assistantMessage[1].chat_id

\* the optimistic chat's messages with the pending message confirmed
ConfirmedMessages(state, locals, result, actual) ==
    LET messages == MessagesOf(state, locals.optimisticMessageChatId)
        confirm(msg) ==
            IF msg.id # TempUserMessageId THEN msg
            ELSE IF result.finalUserMessage # Null
            THEN [result.finalUserMessage[1] EXCEPT !.status = "sent"]
            ELSE [msg EXCEPT !.chat_id = Some(actual), !.status = "sent"]
    IN  [i \in 1..Len(messages) |-> confirm(messages[i])]

\* the index of the first message with the id, 0 when there is none
FindIndex(messages, id) ==
    IF HasId(messages, id)
    THEN CHOOSE i \in 1..Len(messages) :
             /\ messages[i].id = id
             /\ \A j \in 1..(i - 1) : messages[j].id # id
    ELSE 0

\* faulty variant: the history is cut after the rewind target, not before it
BaseHistory_ThroughTarget(state, locals, result, actual) ==
    LET stored == MessagesOf(state, actual)
        rewindPointIdx == IF locals.currentRewindTargetId = Null THEN 0
                          ELSE FindIndex(stored, locals.currentRewindTargetId[1])
    IN  SubSeq(stored, 1, rewindPointIdx)

\* baseHistory: the messages before the rewind target, or the optimistic
\* chat's when the target is not found; never the message being sent
BaseHistory(state, locals, result, actual) ==
    LET stored == MessagesOf(state, actual)
        rewindPointIdx == IF locals.currentRewindTargetId = Null THEN 0
                          ELSE FindIndex(stored, locals.currentRewindTargetId[1])
        cut == IF rewindPointIdx # 0 THEN SubSeq(stored, 1, rewindPointIdx - 1)
               ELSE WithoutOptimistic(MessagesOf(state, locals.optimisticMessageChatId))
        notSent(m) == /\ m.id # TempUserMessageId
                      /\ (result.finalUserMessage # Null => m.id # result.finalUserMessage[1].id)
    IN  SelectSeq(cut, notSent)

\* the assistant message is pushed unless a message has its id
WithAssistant(messages, assistantMessage) ==
    IF HasId(messages, assistantMessage.id) THEN messages
    ELSE Append(messages, assistantMessage)

\* messagesForChatProcessing at the end of its processing
ProcessedMessages(state, locals, result, actual) ==
    LET confirmed == ConfirmedMessages(state, locals, result, actual)
        assistantMessage == result.assistantMessage[1]
    IN  IF IsActualRewind(locals, result)
        THEN LET isSent(m) ==
                     /\ m.role = "user"
                     /\ \/ (result.finalUserMessage # Null
                              /\ m.id = result.finalUserMessage[1].id)
                        \/ m.id = TempUserMessageId
                 found == SelectSeq(confirmed, isSent)
                 newBranchMessages == (IF found # <<>> THEN <<found[1]>> ELSE <<>>)
                                      \o <<assistantMessage>>
             IN  BaseHistory(state, locals, result, actual) \o newBranchMessages
        ELSE WithAssistant(confirmed, assistantMessage)

\* the selections stored for the chat
ProcessedSelections(selectedMessagesMap, locals, result, actual, messages) ==
    IF IsActualRewind(locals, result)
    THEN [id \in IdsOf(messages) |-> TRUE]
    ELSE LET previous == IF actual \in DOMAIN selectedMessagesMap
                         THEN selectedMessagesMap[actual] ELSE EmptyMap
             userIds == IF result.finalUserMessage # Null
                        THEN {result.finalUserMessage[1].id}
                        ELSE { m \in {TempUserMessageId} :
                                 \E i \in 1..Len(messages) :
                                     messages[i].role = "user" /\ messages[i].id = m }
             chosen == userIds \cup {result.assistantMessage[1].id}
         IN  [id \in DOMAIN previous \cup chosen |->
                 IF id \in chosen THEN TRUE ELSE previous[id]]

\* faulty variant: the new entry takes the place of the personal chats
WithNewChat_Replacing(chatsByContext, locals, actual) ==
    [chatsByContext EXCEPT
        !.personal = <<[id |-> actual, organization_id |-> locals.organizationIdForApi]>>]

\* chatsByContext with the entry of a chat the send created
WithNewChat(chatsByContext, locals, actual) ==
    LET newChatEntry == [id |-> actual, organization_id |-> locals.organizationIdForApi]
        org == locals.organizationIdForApi
    IN  IF org # Null /\ org # Some("personal")
        THEN [chatsByContext EXCEPT !.orgs =
                 MapPut(@, org[1],
                        Append(IF org[1] \in DOMAIN @ THEN @[org[1]] ELSE <<>>, newChatEntry))]
        ELSE [chatsByContext EXCEPT !.personal = Append(@, newChatEntry)]

\* the state update of a send that was answered with an assistant message
SuccessUpdate(state, locals, result) ==
    IF ActualNewChatId(result) = Null THEN MissingChatIdUpdate(state)
    ELSE LET actual == ActualNewChatId(result)[1]
             optimistic == locals.optimisticMessageChatId
             messages == ProcessedMessages(state, locals, result, actual)
             moved == optimistic # actual
             keptMessages == IF moved /\ optimistic \in DOMAIN state.messagesByChatId
                             THEN MapRemove(state.messagesByChatId, optimistic)
                             ELSE state.messagesByChatId
             keptSelections == IF moved /\ optimistic \in DOMAIN state.selectedMessagesMap
                               THEN MapRemove(state.selectedMessagesMap, optimistic)
                               ELSE state.selectedMessagesMap
         IN  [state EXCEPT
                !.messagesByChatId = MapPut(keptMessages, actual, messages),
                !.chatsByContext = IF moved THEN WithNewChat(@, locals, actual) ELSE @,
                !.currentChatId = Some(actual),
                !.isLoadingAiResponse = FALSE,
                !.aiError = Null,
                !.rewindTargetMessageId = IF IsActualRewind(locals, result) THEN Null ELSE @,
                !.selectedMessagesMap =
                    MapPut(keptSelections, actual,
                           ProcessedSelections(keptSelections, locals, result, actual, messages)),
                !.newChatContext = IF moved THEN Null ELSE @]

InputChatIds == {Null, Some("chat-1"), Some("chat-2")}

InitSend ==
    /\ LoopUnused
    /\ AdapterUnused
    /\ ProcessJobUnused
    /\ PathUnused
    /\ BuilderUnused
    /\ IsolatorUnused
    /\ ApiUnused
    /\ SingletonUnused
    /\ WalletUnused
    /\ CheckoutUnused
    /\ TokenUnused
    /\ smPc = "idle"
    /\ smState \in ReachableAiStates
    /\ smBefore = smState
    /\ smEnv \in SendEnvironments
    /\ smLocals = Null
    /\ smRequests = <<>>
    /\ smOutcome = Null
    /\ smLogins = 0
    /\ smPendingDetails = Null
    /\ smReturn = Null

\* handleSendMessage up to its await: the guards, the optimistic message,
\* the loading mark and the call of the chat API
CallHandleSendMessage ==
    /\ smPc = "idle"
    /\ \E inputChatId \in InputChatIds :
           LET rejection == GuardRejection(smState, smEnv)
               locals == SendLocals(smState, smEnv, inputChatId)
           IN  IF rejection # Null
               THEN /\ smState' = [smState EXCEPT !.isLoadingAiResponse = FALSE,
                                                  !.aiError = rejection[1].aiError,
                                                  !.pendingAction = rejection[1].pendingAction]
                    /\ smLogins' = IF rejection[1].login THEN smLogins + 1 ELSE smLogins
                    /\ smPc' = "done"
                    /\ UNCHANGED <<smLocals, smRequests>>
               ELSE /\ smState' = [AddOptimisticUserMessage(smState, inputChatId) EXCEPT
                                      !.isLoadingAiResponse = TRUE, !.aiError = Null]
                    /\ smLocals' = Some(locals)
                    /\ smRequests' = Append(smRequests, ChatApiRequest(smState, locals))
                    /\ smPc' = "awaiting"
                    /\ UNCHANGED smLogins
    /\ UNCHANGED <<smBefore, smEnv, smOutcome, smPendingDetails, smReturn>>
    /\ UNCHANGED exceptSend

\* callChatApi settles and handleSendMessage runs to its return
ChatApiSettles ==
    /\ smPc = "awaiting"
    /\ \E answer \in ChatAnswers(smRequests[Len(smRequests)]) :
           LET outcome == CallChatApi(smRequests[Len(smRequests)], answer)
               result == CoreMessageProcessing(outcome)
           IN  /\ smOutcome' = Some(outcome)
               /\ IF ~result.success \/ result.assistantMessage = Null
                  THEN /\ smState' = FailureUpdate(smState, smLocals[1], result)
                       /\ IF IsAuthErrorCode(result.errorCode)
                          THEN /\ smPendingDetails' =
                                      Some(PendingActionDetails(smBefore, smLocals[1]))
                               /\ smLogins' = smLogins + 1
                          ELSE UNCHANGED <<smPendingDetails, smLogins>>
                       /\ smReturn' = Null
                  ELSE /\ smState' = SuccessUpdate(smState, smLocals[1], result)
                       /\ smReturn' = result.assistantMessage
                       /\ UNCHANGED <<smPendingDetails, smLogins>>
    /\ smPc' = "done"
    /\ UNCHANGED <<smBefore, smEnv, smLocals, smRequests>>
    /\ UNCHANGED exceptSend

NextSend ==
    \/ CallHandleSendMessage
    \/ ChatApiSettles

SpecSend == InitSend /\ [][NextSend]_vars

----------------------------------------------------------------------------
(* ApiClient.getToken shared by concurrent requests *)

MaxRequests == 3

RequestIds == 1..MaxRequests

\* the options of the requests in flight together: public or not, with or
\* without a token of their own
ConcurrentOptions ==
    { o \in FetchOptions :
        /\ o.isPublic \in {Null, Some(TRUE)}
        /\ o.token \in {Null, Some(<<"options-token">>)}
        /\ o.authorizationHeader = Null
        /\ o.contentTypeHeader = Null
        /\ o.body = "none" }

\* request() goes to getToken: Authorization is wanted and options.token is
\* not there to give it
CallsGetToken(options) ==
    /\ WantsAuthorization(options,
                          HeadersAppend(InitialHeaders(options), "apikey", SupabaseAnonKey))
    /\ ~Truthy(options.token)

\* how supabase.auth.getSession() settles: it resolves or it rejects
SessionSettlings ==
    { [settled |-> "resolved", result |-> r] : r \in SessionResults }
    \cup { [settled |-> "rejected"] }

\* what the promise of getToken settles to
TokenSettling(settling) ==
    IF settling.settled = "rejected" THEN [settled |-> "rejected"]
    ELSE [settled |-> "resolved", token |-> TokenOfSession(settling.result)]

\* faulty variant: the marker is cleared only when getSession resolved
MarkerAfterSettle_KeptOnRejection(marker, settling) ==
    IF settling.settled = "rejected" THEN marker ELSE Null

\* the finally of the token fetch: this.tokenPromise = null
MarkerAfterSettle(marker, settling) == Null

InitToken ==
    /\ LoopUnused
    /\ AdapterUnused
    /\ ProcessJobUnused
    /\ PathUnused
    /\ BuilderUnused
    /\ IsolatorUnused
    /\ ApiUnused
    /\ SingletonUnused
    /\ WalletUnused
    /\ CheckoutUnused
    /\ SendUnused
    /\ tkPc = [r \in RequestIds |-> "idle"]
    /\ tkOptions \in [RequestIds -> ConcurrentOptions]
    /\ tkPromise = Null
    /\ tkInFlight = {}
    /\ tkFetches = 0
    /\ tkAwaits = [r \in RequestIds |-> 0]
    /\ tkSettled = <<>>
    /\ tkGot = [r \in RequestIds |-> Null]

\* request() up to its first await: with a token of its own, or public, it
\* goes on to fetch; otherwise getToken returns the pending promise or
\* starts a getSession call and marks it
RequestArrives(r) ==
    /\ tkPc[r] = "idle"
    /\ IF CallsGetToken(tkOptions[r])
       THEN /\ tkPc' = [tkPc EXCEPT ![r] = "awaiting_token"]
            /\ IF tkPromise # Null
               THEN /\ tkAwaits' = [tkAwaits EXCEPT ![r] = tkPromise[1]]
                    /\ UNCHANGED <<tkPromise, tkInFlight, tkFetches, tkSettled>>
               ELSE /\ tkFetches' = tkFetches + 1
                    /\ tkPromise' = Some(tkFetches + 1)
                    /\ tkInFlight' = tkInFlight \cup {tkFetches + 1}
                    /\ tkSettled' = Append(tkSettled, Null)
                    /\ tkAwaits' = [tkAwaits EXCEPT ![r] = tkFetches + 1]
       ELSE /\ tkPc' = [tkPc EXCEPT ![r] = "fetching"]
            /\ UNCHANGED <<tkPromise, tkInFlight, tkFetches, tkAwaits, tkSettled>>
    /\ UNCHANGED <<tkOptions, tkGot>>
    /\ UNCHANGED exceptToken

\* a getSession call settles and the token fetch runs to its end, through
\* its finally
GetSessionSettles(n) ==
    /\ n \in tkInFlight
    /\ \E settling \in SessionSettlings :
           /\ tkSettled' = [tkSettled EXCEPT ![n] = Some(TokenSettling(settling))]
           /\ tkPromise' = MarkerAfterSettle(tkPromise, settling)
    /\ tkInFlight' = tkInFlight \ {n}
    /\ UNCHANGED <<tkPc, tkOptions, tkFetches, tkAwaits, tkGot>>
    /\ UNCHANGED exceptToken

\* a request's await of getToken is resumed with what the promise settled to
RequestResumes(r) ==
    /\ tkPc[r] = "awaiting_token"
    /\ tkSettled[tkAwaits[r]] # Null
    /\ tkGot' = [tkGot EXCEPT ![r] = tkSettled[tkAwaits[r]]]
    /\ tkPc' = [tkPc EXCEPT ![r] = IF tkSettled[tkAwaits[r]][1].settled = "rejected"
                                   THEN "failed" ELSE "fetching"]
    /\ UNCHANGED <<tkOptions, tkPromise, tkInFlight, tkFetches, tkAwaits, tkSettled>>
    /\ UNCHANGED exceptToken

NextToken ==
    \/ \E r \in RequestIds : RequestArrives(r)
    \/ \E n \in 1..MaxRequests : GetSessionSettles(n)
    \/ \E r \in RequestIds : RequestResumes(r)

SpecToken == InitToken /\ [][NextToken]_vars

----------------------------------------------------------------------------
(* handleContinuationLoop *)

\* token_usage?.finish_reason  (continue.ts:59, 69); "undefined" when absent
FinishReasonRead(response) ==
    IF response.token_usage # Null /\ "finish_reason" \in DOMAIN response.token_usage[1]
    THEN response.token_usage[1].finish_reason
    ELSE "undefined"

\* faulty variant: the comparison is the wrong way round
LoopCondition_Inverted(count) == count >= MAX_CONTINUATIONS

\* while (continuationCount <= MAX_CONTINUATIONS)
LoopCondition(count) == count <= MAX_CONTINUATIONS

\* faulty variant: the loop goes on after every finish reason but "stop"
ShouldBreak_OnStopOnly(finishReason, count) ==
    finishReason = "stop" \/ count >= MAX_CONTINUATIONS

\* if (finishReason !== "length" || continuationCount >= MAX_CONTINUATIONS) break
ShouldBreak(finishReason, count) ==
    finishReason # "length" \/ count >= MAX_CONTINUATIONS

\* faulty variant: = where the code has +=
AccumulateTokens_Overwrite(acc, response) ==
    IF response.token_usage = Null THEN acc
    ELSE [acc EXCEPT
            !.prompt_tokens = OrZero(response.token_usage[1], "prompt_tokens"),
            !.completion_tokens = OrZero(response.token_usage[1], "completion_tokens")]

\* accumulatedTokenUsage.x += token_usage.x || 0, skipped when token_usage is null
AccumulateTokens(acc, response) ==
    IF response.token_usage = Null THEN acc
    ELSE [acc EXCEPT
            !.prompt_tokens = @ + OrZero(response.token_usage[1], "prompt_tokens"),
            !.completion_tokens = @ + OrZero(response.token_usage[1], "completion_tokens")]

\* faulty variant: the new content goes in front
AccumulateContent_Prepend(acc, content) == content \o acc

\* accumulatedContent += response.content
AccumulateContent(acc, content) == acc \o content

\* faulty variant: the call is not awaited, the loop goes straight on
AfterIssue_NotAwaited == "loop_test"

\* the position the loop is at once it has started adapter.sendMessage:
\* it awaits the call
AfterIssue == "awaiting"

\* { ...lastResponse, content, token_usage: { ...accumulatedTokenUsage, finish_reason: "stop" } }
CombinedPayload(last, content, usage) ==
    Spread(last,
           [content |-> content,
            token_usage |-> Some(Spread(usage, [finish_reason |-> "stop"]))])

\* faulty variant: the rejection is caught and the loop is left as on a break
AfterFailure_Caught == "after_loop"

\* the position the loop is at once the awaited sendMessage has rejected:
\* there is no try around the await, the error leaves the function
AfterFailure == "failed"

\* faulty variant: the partial response goes back as a user message
PartialMessage_AsUser(response) == [role |-> "user", content |-> response.content]

\* { role: "assistant", content: response.content }
PartialMessage(response) == [role |-> "assistant", content |-> response.content]

InitLoop ==
    /\ BuilderUnused
    /\ IsolatorUnused
    /\ ApiUnused
    /\ SingletonUnused
    /\ WalletUnused
    /\ CheckoutUnused
    /\ SendUnused
    /\ TokenUnused
    /\ pc = "loop_test"
    /\ initialMessages \in {Null} \cup { Some(h) : h \in InitialHistories }
    /\ callerMessages = initialMessages
    /\ currentMessages = IF initialMessages = Null THEN <<>> ELSE initialMessages[1]
    /\ accumulatedContent = <<>>
    /\ accumulatedTokenUsage = [prompt_tokens |-> 0, completion_tokens |-> 0, total_tokens |-> 0]
    /\ continuationCount = 0
    /\ lastResponse = Null
    /\ loopResult = Null
    /\ received = <<>>
    /\ callsIssued = 0
    /\ inFlight = 0
    /\ AdapterUnused
    /\ ProcessJobUnused
    /\ PathUnused

\* The head of the while loop: either start the next adapter.sendMessage or
\* leave the loop.
LoopHead ==
    /\ pc = "loop_test"
    /\ IF LoopCondition(continuationCount)
       THEN /\ pc' = AfterIssue
            /\ callsIssued' = callsIssued + 1
            /\ inFlight' = inFlight + 1
       ELSE /\ pc' = "after_loop"
            /\ UNCHANGED <<callsIssued, inFlight>>
    /\ UNCHANGED <<initialMessages, callerMessages, currentMessages, accumulatedContent,
                   accumulatedTokenUsage, continuationCount, lastResponse, loopResult,
                   received>>
    /\ UNCHANGED exceptLoop

\* adapter.sendMessage resolves with `response`; the rest of the loop body.
HandleResponse(response) ==
    /\ accumulatedTokenUsage' = AccumulateTokens(accumulatedTokenUsage, response)
    /\ accumulatedContent' = AccumulateContent(accumulatedContent, response.content)
    /\ lastResponse' = Some(response)
    /\ received' = Append(received, response)
    /\ inFlight' = inFlight - 1
    /\ IF ShouldBreak(FinishReasonRead(response), continuationCount)
       THEN /\ pc' = "after_loop"
            /\ UNCHANGED <<continuationCount, currentMessages, callerMessages>>
       ELSE LET partial == PartialMessage(response)
            IN  /\ continuationCount' = continuationCount + 1
                \* currentRequest is a shallow copy: the array is the caller's
                \* array unless the caller passed none
                /\ currentMessages' = Append(currentMessages, partial)
                /\ callerMessages' = IF callerMessages = Null THEN Null
                                     ELSE Some(Append(callerMessages[1], partial))
                /\ pc' = "loop_test"
    /\ UNCHANGED <<initialMessages, loopResult, callsIssued>>
    /\ UNCHANGED exceptLoop

ReceiveResponse ==
    /\ pc = "awaiting"
    /\ \E response \in AdapterResponses : HandleResponse(response)

\* adapter.sendMessage rejects: the await throws out of the loop.
CallFails ==
    /\ pc = "awaiting"
    /\ pc' = AfterFailure
    /\ inFlight' = inFlight - 1
    /\ UNCHANGED <<initialMessages, callerMessages, currentMessages, accumulatedContent,
                   accumulatedTokenUsage, continuationCount, lastResponse, loopResult,
                   received, callsIssued>>
    /\ UNCHANGED exceptLoop

\* After the loop: the lastResponse check, the total and the returned payload.
Finalize ==
    /\ pc = "after_loop"
    /\ IF lastResponse = Null
       THEN /\ pc' = "fatal"
            /\ UNCHANGED <<accumulatedTokenUsage, loopResult>>
       ELSE LET usage == [accumulatedTokenUsage EXCEPT
                            !.total_tokens = accumulatedTokenUsage.prompt_tokens
                                             + accumulatedTokenUsage.completion_tokens]
            IN  /\ accumulatedTokenUsage' = usage
                /\ loopResult' = Some(CombinedPayload(lastResponse[1], accumulatedContent, usage))
                /\ pc' = "done"
    /\ UNCHANGED <<initialMessages, callerMessages, currentMessages, accumulatedContent,
                   continuationCount, lastResponse, received, callsIssued, inFlight>>
    /\ UNCHANGED exceptLoop

NextLoop == LoopHead \/ ReceiveResponse \/ CallFails \/ Finalize

SpecLoop == InitLoop /\ [][NextLoop]_vars

----------------------------------------------------------------------------
(* handleContinuationLoop driving AnthropicAdapter.sendMessage *)

\* the loop's first state; aRequest is currentRequest, the shallow copy of
\* initialApiRequest with messages defaulted to []
InitLoopAnthropic ==
    /\ ProcessJobUnused
    /\ PathUnused
    /\ BuilderUnused
    /\ IsolatorUnused
    /\ ApiUnused
    /\ SingletonUnused
    /\ WalletUnused
    /\ CheckoutUnused
    /\ SendUnused
    /\ TokenUnused
    /\ pc = "loop_test"
    /\ initialMessages \in {Null} \cup { Some(h) : h \in InitialHistories }
    /\ callerMessages = initialMessages
    /\ currentMessages = IF initialMessages = Null THEN <<>> ELSE initialMessages[1]
    /\ accumulatedContent = <<>>
    /\ accumulatedTokenUsage = [prompt_tokens |-> 0, completion_tokens |-> 0, total_tokens |-> 0]
    /\ continuationCount = 0
    /\ lastResponse = Null
    /\ loopResult = Null
    /\ received = <<>>
    /\ callsIssued = 0
    /\ inFlight = 0
    /\ aPc = "idle"
    /\ aRequest \in [messages : {Some(currentMessages)},
                      message : {Null, Some(<<>>), Some(<<"x">>)},
                      max_tokens_to_generate : {Null, Some(0), Some(256)}]
    /\ aSent = <<>>
    /\ aReply = Null
    /\ aReturn = Null
    /\ aError = ""

\* the head of the while loop with adapter.sendMessage(currentRequest, ...)
\* entering AnthropicAdapter.sendMessage
SendMessageCalled ==
    /\ pc = "loop_test"
    /\ IF LoopCondition(continuationCount)
       THEN /\ pc' = AfterIssue
            /\ callsIssued' = callsIssued + 1
            /\ inFlight' = inFlight + 1
            /\ aPc' = "called"
            /\ aRequest' = [aRequest EXCEPT !.messages = Some(currentMessages)]
            /\ aReply' = Null
            /\ aReturn' = Null
            /\ aError' = ""
            /\ UNCHANGED aSent
       ELSE /\ pc' = "after_loop"
            /\ UNCHANGED <<callsIssued, inFlight>>
            /\ UNCHANGED adapterVars
    /\ UNCHANGED <<initialMessages, callerMessages, currentMessages, accumulatedContent,
                   accumulatedTokenUsage, continuationCount, lastResponse, loopResult,
                   received>>
    /\ UNCHANGED <<processJobVars, pathVars, builderVars, isolatorVars, apiVars, singletonVars,
                   walletVars, checkoutVars, sendVars, tokenVars>>

\* sendMessage returned adapterResponse: the await resolves with it
SendMessageResolves ==
    /\ pc = "awaiting"
    /\ aPc = "returned"
    /\ HandleResponse(aReturn[1])

\* sendMessage threw: the await rejects
SendMessageRejects ==
    /\ aPc = "threw"
    /\ CallFails

NextLoopAnthropic ==
    \/ SendMessageCalled
    \/ BuildAndSend
    \/ ProviderReply
    \/ SendMessageResolves
    \/ SendMessageRejects
    \/ Finalize

SpecLoopAnthropic == InitLoopAnthropic /\ [][NextLoopAnthropic]_vars


----------------------------------------------------------------------------
(* Vocabulary of the properties of handleContinuationLoop *)

RECURSIVE SumOfUsage(_, _)
\* the sum of field f over the token_usage objects of the responses rs,
\* a null token_usage or a missing field counting 0
SumOfUsage(rs, f) ==
    IF rs = <<>> THEN 0
    ELSE LET r == rs[Len(rs)]
             own == IF r.token_usage = Null THEN 0
                    ELSE IF f \in DOMAIN r.token_usage[1] THEN r.token_usage[1][f]
                    ELSE 0
         IN  SumOfUsage(SubSeq(rs, 1, Len(rs) - 1), f) + own

RECURSIVE ConcatContent(_)
\* the contents of the responses rs, one after the other
ConcatContent(rs) ==
    IF rs = <<>> THEN <<>>
    ELSE rs[1].content \o ConcatContent(Tail(rs))

\* every finish_reason a payload carries: the field beside token_usage and
\* the field inside it
ReportedFinishReasons(payload) ==
    (IF "finish_reason" \in DOMAIN payload THEN {payload.finish_reason} ELSE {})
    \cup (IF payload.token_usage # Null /\ "finish_reason" \in DOMAIN payload.token_usage[1]
          THEN {payload.token_usage[1].finish_reason} ELSE {})

\* the finish reason the loop saw on every response so far was "length"
EveryCallLength ==
    \A i \in 1..Len(received) : FinishReasonRead(received[i]) = "length"

\* positions of the responses whose finish reason, as the loop reads it, is
\* not "length"
NotLengthAt == { i \in 1..Len(received) : FinishReasonRead(received[i]) # "length" }

\* min(position of the first response that is not "length", 5)
ExpectedCalls ==
    IF NotLengthAt = {} THEN MAX_CONTINUATIONS + 1
    ELSE LET first == CHOOSE i \in NotLengthAt : \A j \in NotLengthAt : i <= j
         IN  IF first <= MAX_CONTINUATIONS + 1 THEN first ELSE MAX_CONTINUATIONS + 1

----------------------------------------------------------------------------
(* Properties *)

\* C1 (as claimed): when every provider call returns finish reason "length",
\* the loop ends after exactly MAX_CONTINUATIONS + 1 = 5 calls and the only
\* finish reason its combined result reports is "stop".
C1_AllLengthFiveCallsStop ==
    (pc = "done" /\ EveryCallLength) =>
        /\ callsIssued = MAX_CONTINUATIONS + 1
        /\ ReportedFinishReasons(loopResult[1]) = {"stop"}

\* C1, the part the code keeps: when every call returns "length" the loop
\* ends after exactly 5 calls and token_usage.finish_reason is "stop".
C1_CallCountPart ==
    (pc = "done" /\ EveryCallLength) =>
        /\ callsIssued = MAX_CONTINUATIONS + 1
        /\ loopResult[1].token_usage[1].finish_reason = "stop"

\* C2: a further provider call follows response i if and only if response i
\* had finish reason "length" and fewer than 4 continuations had been used;
\* the number of calls of a finished loop is min(position of the first
\* response that is not "length", 5), and no run makes more than 5 calls.
C2_FurtherCallIffLengthBelowCap ==
    /\ callsIssued <= MAX_CONTINUATIONS + 1
    /\ \A i \in 1..Len(received) :
          LET mayContinue == /\ FinishReasonRead(received[i]) = "length"
                             /\ i - 1 < MAX_CONTINUATIONS
          IN  /\ (i < callsIssued) => mayContinue
              /\ (i = callsIssued /\ pc \in {"after_loop", "done"}) => ~mayContinue
              /\ (i = callsIssued /\ pc = "loop_test") => mayContinue
    /\ (pc \in {"after_loop", "done"}) => callsIssued = ExpectedCalls

C2_Witness ==
    /\ pc = "done"
    /\ callsIssued = 3
    /\ FinishReasonRead(received[1]) = "length"
    /\ FinishReasonRead(received[2]) = "length"
    /\ FinishReasonRead(received[3]) = "tool_calls"

\* C3 (as claimed): whenever the loop terminates normally, the only finish
\* reason the combined payload reports is "stop", whatever the last call's
\* finish reason was.
C3_ReportedReasonIsStop ==
    pc = "done" => ReportedFinishReasons(loopResult[1]) = {"stop"}

\* C4: the combined result's prompt_tokens and completion_tokens are the
\* sums over all calls made (no usage or a missing field counts 0) and
\* total_tokens is their sum.
C4_TokensAreSums ==
    pc = "done" =>
        LET usage == loopResult[1].token_usage[1]
        IN  /\ usage.prompt_tokens = SumOfUsage(received, "prompt_tokens")
            /\ usage.completion_tokens = SumOfUsage(received, "completion_tokens")
            /\ usage.total_tokens = usage.prompt_tokens + usage.completion_tokens

\* calls (10,5) and (12,7) give 22, 12 and 34
C4_Witness ==
    /\ pc = "done"
    /\ Len(received) = 2
    /\ received[1].token_usage # Null
    /\ received[2].token_usage # Null
    /\ DOMAIN received[1].token_usage[1] = {"prompt_tokens", "completion_tokens", "finish_reason"}
    /\ DOMAIN received[2].token_usage[1] = {"prompt_tokens", "completion_tokens", "finish_reason"}
    /\ received[1].token_usage[1].prompt_tokens = 10
    /\ received[1].token_usage[1].completion_tokens = 5
    /\ received[2].token_usage[1].prompt_tokens = 12
    /\ received[2].token_usage[1].completion_tokens = 7
    /\ loopResult[1].token_usage[1].prompt_tokens = 22
    /\ loopResult[1].token_usage[1].completion_tokens = 12
    /\ loopResult[1].token_usage[1].total_tokens = 34

\* C5: the combined content is the concatenation of the contents of all
\* responses received, in call order.
C5_ContentIsConcatenation ==
    pc = "done" => loopResult[1].content = ConcatContent(received)

C5_Witness ==
    /\ pc = "done"
    /\ Len(received) = 3
    /\ received[1].content = <<"a">>
    /\ received[2].content = <<"b">>
    /\ received[3].content = <<"a">>
    /\ loopResult[1].content = <<"a", "b", "a">>

\* C6: the loop makes at least one provider call before it leaves the while
\* loop, so the "did not return a response" error is never raised.
C6_FatalUnreachable ==
    /\ pc # "fatal"
    /\ (pc \in {"after_loop", "done"}) => (callsIssued >= 1 /\ lastResponse # Null)

C6_Witness ==
    /\ pc = "done"
    /\ callsIssued = 1
    /\ loopResult # Null

\* C7: provider calls are strictly sequential: at most one is in flight, and
\* every call but the one in flight has settled before the next is issued.
C7_CallsSequential ==
    /\ inFlight \in {0, 1}
    /\ (inFlight = 1) <=> (pc = "awaiting")
    /\ (pc # "failed") => callsIssued = Len(received) + inFlight
    /\ (pc = "failed") => callsIssued = Len(received) + 1

C7_Witness ==
    /\ pc = "awaiting"
    /\ callsIssued = 2
    /\ Len(received) = 1
    /\ inFlight = 1

----------------------------------------------------------------------------
(* Vocabulary of the properties of AnthropicAdapter.sendMessage *)

RECURSIVE ContentTokens(_)
\* one token per character of content
ContentTokens(msgs) ==
    IF msgs = <<>> THEN 0 ELSE Len(Head(msgs).content) + ContentTokens(Tail(msgs))

\* the token count of the fully constructed prompt: system prompt and messages
PromptTokens(payload) ==
    (IF payload.system = Null THEN 0 ELSE Len(payload.system[1]))
    + ContentTokens(payload.messages)

\* strict alternation from a user message to a user message, no system message
WellFormedMessages(msgs) ==
    /\ Len(msgs) >= 1
    /\ msgs[1].role = "user"
    /\ msgs[Len(msgs)].role = "user"
    /\ \A i \in 1..Len(msgs) : msgs[i].role \in {"user", "assistant"}
    /\ \A i \in 1..(Len(msgs) - 1) : msgs[i].role # msgs[i + 1].role

HasUserMessage(request) ==
    \E i \in 1..Len(CombinedMessages(request)) : CombinedMessages(request)[i].role = "user"

\* C8 (as claimed): given a constructed prompt whose token count exceeds the
\* model's input-token budget, sendMessage fails and sends no request.
C8_OverBudgetFailsUnsent ==
    (aPc \in {"fetching", "returned", "threw"}
        /\ PromptTokens(AnthropicPayload(aRequest)) > ContextWindowTokens)
    => (aPc = "threw" /\ aSent = <<>>)

\* C9: the finish_reason sendMessage returns is one of stop, length,
\* tool_calls, unknown: end_turn and stop_sequence give stop, max_tokens
\* length, tool_use tool_calls, any other or missing stop_reason unknown.
C9_FinishReasonNormalized ==
    aPc = "returned" =>
        LET json == aReply[1].json
            stop == IF "stop_reason" \in DOMAIN json THEN json.stop_reason ELSE "(missing)"
            reason == aReturn[1].finish_reason
        IN  /\ reason \in FinishReasons
            /\ (stop \in {"end_turn", "stop_sequence"}) => reason = "stop"
            /\ (stop = "max_tokens") => reason = "length"
            /\ (stop = "tool_use") => reason = "tool_calls"
            /\ (stop \notin {"end_turn", "stop_sequence", "max_tokens", "tool_use"})
                   => reason = "unknown"

C9_Witness ==
    /\ aPc = "returned"
    /\ "stop_reason" \in DOMAIN aReply[1].json
    /\ aReply[1].json.stop_reason = "max_tokens"
    /\ aReturn[1].finish_reason = "length"

\* C10: every message list sent to the provider alternates user/assistant
\* strictly, starts and ends with a user message and holds no system
\* message; when sendMessage sends nothing it throws, and it sends nothing
\* when the request holds no user message to start a list with.
C10_SentMessagesAlternate ==
    /\ \A i \in 1..Len(aSent) : WellFormedMessages(aSent[i].messages)
    /\ (aPc \in {"fetching", "returned", "threw"} /\ aSent = <<>>) => aPc = "threw"
    /\ (aPc \in {"fetching", "returned", "threw"} /\ ~HasUserMessage(aRequest))
           => (aPc = "threw" /\ aSent = <<>>)

\* a history with a system message and a repeated user message is sent as
\* user, assistant, user with the system prompt beside it
C10_Witness ==
    /\ aPc = "fetching"
    /\ aRequest.messages # Null
    /\ Len(aRequest.messages[1]) = 3
    /\ aRequest.messages[1][1].role = "system"
    /\ aRequest.messages[1][2].role = "user"
    /\ aRequest.messages[1][3].role = "user"
    /\ Len(aSent) = 1
    /\ aSent[1].system # Null
    /\ Len(aSent[1].messages) = 1

RECURSIVE IsSubsequence(_, _)
\* p is c with some elements left out: every element of p is an element of
\* c, used once, in the order of c
IsSubsequence(p, c) ==
    IF p = <<>> THEN TRUE
    ELSE IF c = <<>> THEN FALSE
    ELSE IF Head(p) = Head(c) THEN IsSubsequence(Tail(p), Tail(c))
    ELSE IsSubsequence(p, Tail(c))

CountOf(msgs, m) == Cardinality({ i \in 1..Len(msgs) : msgs[i] = m })

HistoryOf(request) == IF request.messages = Null THEN <<>> ELSE request.messages[1]

\* the request's history ends with the user message the request also
\* carries as its new message
HistoryEndsWithNewMessage(request) ==
    /\ request.message # Null
    /\ request.message[1] # <<>>
    /\ HistoryOf(request) # <<>>
    /\ HistoryOf(request)[Len(HistoryOf(request))]
           = [role |-> "user", content |-> request.message[1]]

\* the reply carries no text: no first content block of type text, or one
\* whose text is only white space
NoTextContent(json) ==
    ~ /\ "content" \in DOMAIN json
      /\ Len(json.content) > 0
      /\ json.content[1].type = "text"
      /\ \E i \in 1..Len(json.content[1].text) : json.content[1].text[i] # " "

C12_ProviderErrorFailsAfterOneAttempt ==
    /\ Len(aSent) <= 1
    /\ aReply # Null => Len(aSent) = 1
    /\ (aReply # Null /\ (~aReply[1].ok \/ NoTextContent(aReply[1].json)))
           => (aPc = "threw" /\ aError # "" /\ aReturn = Null)

C12_Witness ==
    /\ aPc = "threw"
    /\ aReply # Null
    /\ aReply[1].ok
    /\ NoTextContent(aReply[1].json)
    /\ Len(aSent) = 1
    /\ aReturn = Null

----------------------------------------------------------------------------
(* Properties of the dialectic worker *)

\* C13: the execute payload built from a plan job of a simple stage has
\* target_contribution_id undefined even if the plan job carried one; a
\* continuation job keeps its target_contribution_id; the job kind decides,
\* not the presence of the field.
C13_PlanClearsTargetContinuationKeeps ==
    pjPc = "handed_on" =>
        /\ pjExecutePayload[1].job_type = "execute"
        /\ pjJob[1].job_type = "plan" => pjExecutePayload[1].target_contribution_id = Null
        /\ pjJob[1].job_type = "execute"
               => pjExecutePayload[1].target_contribution_id = pjJob[1].target_contribution_id

C13_Witness ==
    /\ pjPc = "handed_on"
    /\ pjJob[1].job_type = "plan"
    /\ pjJob[1].target_contribution_id = Some("contribution-1")
    /\ pjExecutePayload[1].target_contribution_id = Null

\* the two jobs are different syntheses: they differ in anchor model, paired
\* model or anchor type
DifferentIdentities(c1, c2) ==
    \/ c1.sourceAnchorModelSlug # c2.sourceAnchorModelSlug
    \/ c1.pairedModelSlug # c2.pairedModelSlug
    \/ c1.sourceAnchorType # c2.sourceAnchorType

\* C14 (as claimed): two pairwise_synthesis_chunk jobs of one stage that
\* differ in anchor model slug, paired model slug or anchor type get
\* different storage paths, whatever the slugs are.
C14_DifferentIdentitiesDifferentPaths ==
    \A j1, j2 \in DOMAIN psOutcome :
        (/\ psOutcome[j1] # Null
         /\ psOutcome[j2] # Null
         /\ psOutcome[j1][1].kind = "path"
         /\ psOutcome[j2][1].kind = "path"
         /\ DifferentIdentities(psContext[j1], psContext[j2]))
        => psOutcome[j1][1].path # psOutcome[j2][1].path

\* C15: a pairwise_synthesis_chunk context without sourceAnchorModelSlug or
\* without pairedModelSlug gets a MissingRequiredContextField error that
\* names every absent one of the two, and no path.
C15_MissingSlugFails ==
    \A j \in DOMAIN psOutcome :
        LET absent == { f \in {"sourceAnchorModelSlug", "pairedModelSlug"} :
                            psContext[j][f] = Null }
        IN  (psOutcome[j] # Null /\ absent # {}) =>
                /\ psOutcome[j][1].kind = "MissingRequiredContextField"
                /\ absent \subseteq psOutcome[j][1].fields
                /\ "path" \notin DOMAIN psOutcome[j][1]

C15_Witness ==
    /\ psOutcome # <<>>
    /\ psOutcome[1] # Null
    /\ psContext[1].sourceAnchorModelSlug # Null
    /\ psContext[1].sourceAnchorType # Null
    /\ psContext[1].pairedModelSlug = Null
    /\ psOutcome[1][1].kind = "MissingRequiredContextField"
    /\ psOutcome[1][1].fields = {"pairedModelSlug"}

----------------------------------------------------------------------------
(* Properties of createCanonicalPathParams *)

\* the model slugs of the source documents
InputSlugs == { cbSourceDocs[i].model_name : i \in 1..Len(cbSourceDocs) }

\* C16: sourceModelSlugs is sorted ascending, has no duplicates and holds
\* exactly the distinct model slugs of the source documents, whatever their
\* order; no documents give the empty sequence.
C16_SourceModelSlugsSortedDistinct ==
    cbParams # Null =>
        LET slugs == cbParams[1].sourceModelSlugs
        IN  /\ \A i, j \in 1..Len(slugs) : i < j => SlugLess(slugs[i], slugs[j])
            /\ { slugs[i] : i \in 1..Len(slugs) } = InputSlugs
            /\ cbSourceDocs = <<>> => slugs = <<>>

C16_Witness ==
    /\ cbParams # Null
    /\ Len(cbSourceDocs) = 3
    /\ cbSourceDocs[1].model_name = <<"b">>
    /\ cbSourceDocs[2].model_name = <<"a", "b">>
    /\ cbSourceDocs[3].model_name = <<"b">>
    /\ cbParams[1].sourceModelSlugs = << <<"a", "b">>, <<"b">> >>

\* positions of the documents other than the anchor
OtherPositions == { i \in 1..Len(cbSourceDocs) : cbSourceDocs[i].id # cbAnchorDoc[1].id }

\* C17: pairedModelSlug is the model slug of the non-anchor document exactly
\* when one document besides the anchor takes part, and is undefined when the
\* anchor is alone; sourceAnchorType and sourceAnchorModelSlug are those of
\* the anchor document passed in.
C17_PairedIsTheOneOtherDocument ==
    cbParams # Null =>
        /\ cbParams[1].pairedModelSlug # Null <=> Cardinality(OtherPositions) = 1
        /\ \A i \in OtherPositions :
               Cardinality(OtherPositions) = 1
                   => cbParams[1].pairedModelSlug = Some(cbSourceDocs[i].model_name)
        /\ cbParams[1].sourceAnchorType = Some(cbAnchorDoc[1].contribution_type)
        /\ cbParams[1].sourceAnchorModelSlug = Some(cbAnchorDoc[1].model_name)

C17_Witness ==
    /\ cbParams # Null
    /\ Len(cbSourceDocs) = 2
    /\ cbSourceDocs[2] = cbAnchorDoc[1]
    /\ cbSourceDocs[1].model_name = cbAnchorDoc[1].model_name
    /\ cbSourceDocs[1].contribution_type # cbAnchorDoc[1].contribution_type
    /\ cbParams[1].pairedModelSlug = Some(cbSourceDocs[1].model_name)
    /\ cbParams[1].sourceAnchorType = Some(cbAnchorDoc[1].contribution_type)

----------------------------------------------------------------------------
(* Properties of the Task Isolator *)

\* C18: for a job, the context is resolved into canonicalPathParams before
\* any summarization of its content, and the payload that reaches execution
\* carries the identity of the job's anchor and paired documents.
C18_ContextResolvedBeforeSummary ==
    /\ \A i \in 1..Len(tiDone) :
           tiDone[i] = "summarize" => \E k \in 1..(i - 1) : tiDone[k] = "resolve"
    /\ tiPayload # Null =>
           \A i \in 1..Len(tiSourceDocs) :
               LET doc == tiSourceDocs[i]
                   params == tiPayload[1].canonicalPathParams
               IN  IF doc.id = tiAnchorId
                   THEN /\ params.sourceAnchorModelSlug = Some(doc.model_name)
                        /\ params.sourceAnchorType = Some(doc.contribution_type)
                   ELSE params.pairedModelSlug = Some(doc.model_name)

C18_Witness ==
    /\ tiPayload # Null
    /\ tiNeedsRag
    /\ tiDone = <<"resolve", "summarize", "build">>
    /\ Len(tiSourceDocs) = 2
    /\ tiPayload[1].content = <<RagSummary>>
    /\ tiPayload[1].canonicalPathParams.pairedModelSlug # Null

----------------------------------------------------------------------------
(* Properties of ApiClient.request *)

\* the body of the reply is a JSON object whose code is AUTH_REQUIRED
BodyHasAuthRequiredCode(reply) ==
    /\ reply.contentType = Some("application/json")
    /\ reply.body.kind = "object"
    /\ "code" \in DOMAIN reply.body.fields
    /\ reply.body.fields["code"] = JStr(<<"AUTH_REQUIRED">>)

AuthRequiredCase(options, reply) ==
    /\ reply.settled = "resolved"
    /\ reply.status = 401
    /\ ~IsPublic(options)
    /\ BodyHasAuthRequiredCode(reply)

\* C19 (as claimed): a 401 whose body has code AUTH_REQUIRED on a non-public
\* request throws AuthRequiredError; every other non-OK response is returned
\* with status and error and no data; a failed fetch is returned with status 0
\* and code NETWORK_ERROR; no returned response has both data and error.
C19_FailuresReported ==
    apiOutcome # Null =>
        LET reply == apiReply[1]
            outcome == apiOutcome[1]
        IN  /\ AuthRequiredCase(apiOptions[1], reply)
                   => outcome.kind = "thrown" /\ outcome.name = "AuthRequiredError"
            /\ (/\ reply.settled = "resolved"
                /\ ~ResponseOk(reply)
                /\ ~AuthRequiredCase(apiOptions[1], reply))
                   => /\ outcome.kind = "returned"
                      /\ {"status", "error"} \subseteq DOMAIN outcome.response
                      /\ "data" \notin DOMAIN outcome.response
            /\ reply.settled = "rejected"
                   => /\ outcome.kind = "returned"
                      /\ outcome.response.status = 0
                      /\ "error" \in DOMAIN outcome.response
                      /\ outcome.response.error.code = JStr(<<"NETWORK_ERROR">>)
            /\ outcome.kind = "returned"
                   => ~({"data", "error"} \subseteq DOMAIN outcome.response)

\* the Authorization values the caller passed in options.headers
CallerAuthorization ==
    IF apiOptions[1].authorizationHeader = Null THEN <<>>
    ELSE <<apiOptions[1].authorizationHeader[1]>>

\* the token at hand for the request: options.token, else the session's
AvailableToken ==
    IF Truthy(apiOptions[1].token) THEN apiOptions[1].token
    ELSE IF apiSession = Null THEN Null
    ELSE IF apiSession[1].error \/ apiSession[1].session = Null THEN Null
    ELSE Some(apiSession[1].session[1].access_token)

----------------------------------------------------------------------------
(* Properties of the ApiClient singleton *)

\* the call just made
CallMade(op) == sgCalls' = sgCalls + 1 /\ sgLast'[1].op = op

ThrewWith(text) ==
    /\ sgLast'[1].outcome.kind = "thrown"
    /\ sgLast'[1].outcome.message[1] = text

\* C21: the module never holds more than the one instance it was first
\* given: initializeApiClient throws 'ApiClient already initialized' while an
\* instance exists, throws and creates nothing when the URL or the anon key
\* is missing, and every api member throws 'ApiClient not initialized' while
\* there is no instance (before initialization, after a reset).
C21_AtMostOneInstance ==
    [][ /\ sgCreated' # sgCreated => sgInstance = Null /\ sgInstance' # Null
        /\ (sgInstance # Null /\ sgInstance' # Null) => sgInstance' = sgInstance
        /\ (CallMade("initializeApiClient") /\ sgInstance # Null)
               => ThrewWith("ApiClient already initialized") /\ sgInstance' = sgInstance
        /\ (/\ CallMade("initializeApiClient")
            /\ \/ Falsy(sgLast'[1].config.supabaseUrl)
               \/ Falsy(sgLast'[1].config.supabaseAnonKey))
               => /\ sgLast'[1].outcome.kind = "thrown"
                  /\ sgInstance' = sgInstance
                  /\ sgCreated' = sgCreated
        /\ (CallMade("api") /\ sgInstance = Null)
               => ThrewWith("ApiClient not initialized") /\ sgInstance' = Null
        /\ (CallMade("api") /\ sgInstance # Null) => sgLast'[1].outcome.kind = "returned"
      ]_vars

C21_Witness ==
    /\ sgCalls = 4
    /\ sgCreated = 1
    /\ sgInstance = Null
    /\ sgLast # Null
    /\ sgLast[1].op = "api"
    /\ sgLast[1].outcome.kind = "thrown"

----------------------------------------------------------------------------
(* Properties of the wallet store *)

OrgFetchInFlight(orgId) == \E fetch \in wsInFlight : fetch.target = Some(orgId)

\* C22 (as claimed): isLoadingOrgWallet[orgId] is true whenever a fetch of
\* that organization's wallet is in flight, and false once none remains,
\* also when a second load starts while an earlier one is still running.
C22_LoadingFlagTracksFetches ==
    \A orgId \in OrgIds :
        /\ OrgFetchInFlight(orgId)
               => MapHas(wsIsLoadingOrgWallet, orgId) /\ wsIsLoadingOrgWallet[orgId]
        /\ (MapHas(wsIsLoadingOrgWallet, orgId) /\ ~OrgFetchInFlight(orgId))
               => ~wsIsLoadingOrgWallet[orgId]

\* a loadPersonalWallet call ends in this step
PersonalLoadEnds ==
    /\ \E fetch \in wsInFlight : fetch.target = Null /\ fetch \notin wsInFlight'
    /\ wsLast' # Null
    /\ wsLast'[1].op = "loadPersonalWallet"

\* C23: when a loadPersonalWallet call ends, isLoadingPersonalWallet is false
\* and the store holds the wallet and no error if the API returned a wallet,
\* neither if it returned null data, and the error and no wallet if it
\* returned an error or the call threw.
C23_PersonalLoadOutcome ==
    [][ PersonalLoadEnds =>
            LET settled == wsLast'[1].settled
                returnedError == settled.kind = "thrown" \/ settled.error # Null
                returnedWallet == ~returnedError /\ settled.data # Null
                returnedNull == ~returnedError /\ settled.data = Null
            IN  /\ wsIsLoadingPersonalWallet' = FALSE
                /\ returnedWallet
                       => wsPersonalWallet' = settled.data /\ wsPersonalWalletError' = Null
                /\ returnedNull => wsPersonalWallet' = Null /\ wsPersonalWalletError' = Null
                /\ returnedError => wsPersonalWallet' = Null /\ wsPersonalWalletError' # Null
      ]_vars

C23_Witness ==
    /\ wsLast # Null
    /\ wsLast[1].op = "loadPersonalWallet"
    /\ wsLast[1].settled.kind = "thrown"
    /\ wsPersonalWallet = Null
    /\ wsPersonalWalletError = Some([message |-> "Network failed", code |-> "NETWORK_ERROR"])
    /\ ~wsIsLoadingPersonalWallet
    /\ wsStarted = 2
    /\ wsInFlight = {}

\* a wallet update notification is handled in this step
NotificationHandled ==
    /\ wsLast' # Null
    /\ wsLast'[1].op = "_handleWalletUpdateNotification"
    /\ wsNow' = wsNow
    /\ wsLast'[1].at = wsNow

\* the wallet as the notification should leave it
AfterNotification(wallet, payload) ==
    IF wallet # Null /\ wallet[1].walletId = payload.walletId
    THEN Some([wallet[1] EXCEPT !.balance = payload.newBalance, !.updatedAt = wsNow])
    ELSE wallet

\* C24: a wallet update notification sets the balance and updatedAt of the
\* wallet with the payload's walletId, personal or organization, and changes
\* no other wallet; with no such wallet in the store (a null personal wallet,
\* an empty organization map) nothing changes and nothing is thrown.
C24_NotificationUpdatesOnlyItsWallet ==
    [][ NotificationHandled =>
            LET payload == wsLast'[1].payload
            IN  /\ wsLast'[1].outcome = "returned"
                /\ wsPersonalWallet' = AfterNotification(wsPersonalWallet, payload)
                /\ DOMAIN wsOrganizationWallets' = DOMAIN wsOrganizationWallets
                /\ \A orgId \in DOMAIN wsOrganizationWallets :
                       wsOrganizationWallets'[orgId]
                           = AfterNotification(wsOrganizationWallets[orgId], payload)
                /\ UNCHANGED <<wsIsLoadingPersonalWallet, wsIsLoadingOrgWallet,
                               wsPersonalWalletError, wsOrgWalletErrors, wsUserOrgTokenConsent>>
      ]_vars

C24_Witness ==
    /\ wsLast # Null
    /\ wsLast[1].op = "_handleWalletUpdateNotification"
    /\ wsLast[1].payload = [walletId |-> "wallet-org-2", newBalance |-> "9999"]
    /\ wsLast[1].at = 2
    /\ wsPersonalWallet # Null
    /\ wsPersonalWallet[1].balance = "100"
    /\ DOMAIN wsOrganizationWallets = OrgIds
    /\ wsOrganizationWallets["org-1"] # Null
    /\ wsOrganizationWallets["org-1"][1].updatedAt = 0
    /\ wsOrganizationWallets["org-2"]
           = Some([walletId |-> "wallet-org-2", balance |-> "9999", updatedAt |-> 2])

WalletDecisionOutcomes ==
    {"use_personal_wallet", "use_personal_wallet_for_org", "use_organization_wallet",
     "org_wallet_not_available_policy_org", "user_consent_required", "user_consent_refused",
     "loading", "error"}

\* determineChatWallet returns in this step
ChatWalletDetermined ==
    /\ wsLast' # Null
    /\ wsLast'[1].op = "determineChatWallet"

\* the outcome the consent recorded for an organization calls for
OutcomeForConsent(consents, orgId) ==
    IF orgId \notin DOMAIN consents \/ consents[orgId] = Null THEN "user_consent_required"
    ELSE IF consents[orgId][1] THEN "use_personal_wallet_for_org"
    ELSE "user_consent_refused"

\* C25: determineChatWallet returns a decision for every input and changes no
\* store state; a null, undefined or 'personal' context gives
\* use_personal_wallet; an organization not in userOrganizations gives loading
\* when the organization store is loading it as the current one and error
\* otherwise; policy organization_tokens gives
\* org_wallet_not_available_policy_org; policy member_tokens or no policy
\* gives the outcome of the consent (true, false, null or undefined); any
\* other policy gives the error 'Unexpected token usage policy'.
C25_ChatWalletDecision ==
    [][ ChatWalletDetermined =>
            LET context == wsLast'[1].context
                decision == wsLast'[1].decision
                orgStore == wsOrgStore[1]
                listed == { i \in 1..Len(orgStore.userOrganizations) :
                                orgStore.userOrganizations[i].id = context.id }
            IN  /\ UNCHANGED <<wsPersonalWallet, wsOrganizationWallets, wsIsLoadingPersonalWallet,
                               wsIsLoadingOrgWallet, wsPersonalWalletError, wsOrgWalletErrors,
                               wsUserOrgTokenConsent, wsOrgStore>>
                /\ decision.outcome \in WalletDecisionOutcomes
                /\ (context.kind \in {"null", "undefined"} \/ context.id = "personal")
                       => decision = [outcome |-> "use_personal_wallet"]
                /\ (context.kind = "string" /\ context.id \in OrgIds /\ listed = {})
                       => decision.outcome
                              = IF orgStore.currentOrganizationId = Some(context.id)
                                   /\ orgStore.isLoading
                                THEN "loading" ELSE "error"
                /\ (context.kind = "string" /\ context.id \in OrgIds /\ listed # {})
                       => LET policy == orgStore.userOrganizations[CHOOSE i \in listed : TRUE]
                                            .token_usage_policy
                          IN  IF policy = Some("organization_tokens")
                              THEN decision = [outcome |-> "org_wallet_not_available_policy_org",
                                               orgId |-> context.id]
                              ELSE IF policy \in {Null, Some("member_tokens")}
                              THEN decision
                                       = [outcome |-> OutcomeForConsent(wsUserOrgTokenConsent,
                                                                        context.id),
                                          orgId |-> context.id]
                              ELSE /\ decision.outcome = "error"
                                   /\ decision.message[1] = "Unexpected token usage policy for "
      ]_vars

C25_Witness ==
    /\ wsLast # Null
    /\ wsLast[1].op = "determineChatWallet"
    /\ wsLast[1].context = [kind |-> "string", id |-> "org-2"]
    /\ wsOrgStore[1].userOrganizations
           = <<[id |-> "org-1", token_usage_policy |-> Some("shared_tokens")],
               [id |-> "org-2", token_usage_policy |-> Null]>>
    /\ wsUserOrgTokenConsent = [o \in OrgIds |-> IF o = "org-1" THEN Null ELSE Some(FALSE)]
    /\ wsLast[1].decision = [outcome |-> "user_consent_refused", orgId |-> "org-2"]

----------------------------------------------------------------------------
(* Properties of handleCheckoutSessionCompleted *)

\* the handler looks up a transaction whose status is already COMPLETED or FAILED
FinalizedTransactionFound ==
    /\ coPc = "start"
    /\ coPc' # "start"
    /\ coRow # Null
    /\ coRow[1].status \in {"COMPLETED", "FAILED"}

\* C26: for a payment transaction whose status is already COMPLETED or FAILED
\* the handler returns success with the stored gateway transaction id and the
\* stored token amount, and neither updates the payment transaction nor
\* records a token-wallet transaction.
C26_FinalizedTransactionIdempotent ==
    [][ FinalizedTransactionFound =>
            /\ coPc' = "done"
            /\ coResult' # Null
            /\ coResult'[1].kind = "returned"
            /\ coResult'[1].success
            /\ coResult'[1].paymentGatewayTransactionId = coRow[1].gateway_transaction_id
            /\ coResult'[1].tokensAwarded = Some(coRow[1].tokens_to_award)
            /\ UNCHANGED <<coRow, coUpdates, coRecorded>>
      ]_vars

C26_Witness ==
    /\ coPc = "done"
    /\ coDelivery = 2
    /\ coRow # Null
    /\ coRow[1].status = "FAILED"
    /\ coUpdates = <<[delivery |-> 1, status |-> "FAILED"]>>
    /\ coRecorded = <<>>
    /\ coResult # Null
    /\ coResult[1].kind = "returned"
    /\ coResult[1].success
    /\ coResult[1].tokensAwarded = Some(1000)

\* recordTransaction is called in this step
TokensRecorded == coRecorded' # coRecorded

\* C27: recordTransaction is called at most once per event, and only after
\* the payment transaction was found and updated to COMPLETED and, in
\* subscription mode, after the Stripe subscription retrieval, the plan
\* lookup and the user_subscriptions upsert all succeeded.
C27_TokensOnlyAfterCompletion ==
    [][ TokensRecorded =>
            /\ coRecorded' = Append(coRecorded, coDelivery)
            /\ \A i \in 1..Len(coRecorded) : coRecorded[i] # coDelivery
            /\ coRow # Null
            /\ coRow[1].status = "COMPLETED"
            /\ \E i \in 1..Len(coUpdates) :
                   coUpdates[i] = [delivery |-> coDelivery, status |-> "COMPLETED"]
            /\ coMode = "subscription" => {"retrieve", "plan", "upsert"} \subseteq coSucceeded
      ]_vars

C27_Witness ==
    /\ coMode = "subscription"
    /\ coUpdateFirst
    /\ coRecorded = <<1>>
    /\ coUpdates = <<[delivery |-> 1, status |-> "COMPLETED"]>>
    /\ coSucceeded = {"retrieve", "plan", "upsert"}
    /\ coResult # Null
    /\ coResult[1].success
    /\ coResult[1].tokensAwarded = Some(1000)

----------------------------------------------------------------------------
(* Properties of the history the loop sends *)

\* the history the caller prepared; none counts as empty
InitialHistory == IF initialMessages = Null THEN <<>> ELSE initialMessages[1]

\* the partial contents of the first n responses, each as one assistant message
PartialsAsMessages(n) == [i \in 1..n |-> [role |-> "assistant", content |-> received[i].content]]

\* C28: the request of call k carries the initial history followed by the
\* partial contents of calls 1..k-1, in order, each as one assistant
\* message: one message more per continuation.
C28_HistoryCarriesPartials ==
    /\ continuationCount <= Len(received)
    /\ currentMessages = InitialHistory \o PartialsAsMessages(continuationCount)
    /\ pc = "awaiting" => callsIssued = continuationCount + 1

C28_Witness ==
    /\ pc = "awaiting"
    /\ callsIssued = 3
    /\ Len(InitialHistory) = 1
    /\ Len(currentMessages) = 3
    /\ currentMessages[2].content # currentMessages[3].content

----------------------------------------------------------------------------
(* Properties of the loop driving AnthropicAdapter *)

\* the loop takes up a response that AnthropicAdapter reports as "length"
\* while fewer than MAX_CONTINUATIONS continuations were used
LengthResponseHandled ==
    /\ pc = "awaiting"
    /\ pc' # "awaiting"
    /\ aPc = "returned"
    /\ aReturn[1].finish_reason = "length"
    /\ continuationCount < MAX_CONTINUATIONS

\* C29: a provider response that AnthropicAdapter normalizes to "length"
\* (stop_reason max_tokens) makes the loop issue a continuation whenever
\* fewer than 4 continuations were used.
C29_LengthFromAdapterContinues ==
    [][ LengthResponseHandled =>
            /\ continuationCount' = continuationCount + 1
            /\ pc' = "loop_test"
      ]_vars

\* the request of a continuation: the history ends with the partial content
\* the adapter returned (never empty), pushed as an assistant message, and
\* the request before the push was one the adapter sent
IsContinuationRequest(request) ==
    /\ request.messages # Null
    /\ request.messages[1] # <<>>
    /\ LET history == request.messages[1]
           partial == history[Len(history)]
           before == [request EXCEPT !.messages = Some(SubSeq(history, 1, Len(history) - 1))]
       IN  /\ partial.role = "assistant"
           /\ partial.content # <<>>
           /\ FormatError(AnthropicMessages(before)) = ""

RECURSIVE KeptPositions(_, _, _)
\* the positions of msgs, from i on, that reach the provider when the role
\* expected at i is `expected`
KeptPositions(msgs, i, expected) ==
    IF i > Len(msgs) THEN {}
    ELSE IF msgs[i].role = expected
    THEN {i} \cup KeptPositions(msgs, i + 1, IF expected = "user" THEN "assistant" ELSE "user")
    ELSE KeptPositions(msgs, i + 1, expected)

----------------------------------------------------------------------------
(* Properties of the loop's failures and of its caller's request *)

\* a provider call was rejected: it was issued, is no longer in flight and
\* no response of it was received
CallRejected == inFlight = 0 /\ callsIssued > Len(received)

\* C31: when adapter.sendMessage fails on any call, first or later, the loop
\* fails, makes no further provider call and returns no combined payload:
\* content accumulated from earlier calls is not returned.
C31_FailureEndsLoopWithoutPayload ==
    CallRejected =>
        /\ pc = "failed"
        /\ callsIssued = Len(received) + 1
        /\ loopResult = Null

C31_Witness ==
    /\ CallRejected
    /\ pc = "failed"
    /\ callsIssued = 3
    /\ accumulatedContent # <<>>
    /\ loopResult = Null

\* C32: after the loop has returned or failed, the caller's messages array
\* holds exactly the messages it held before the call.
C32_CallerRequestUnchanged ==
    (pc \in {"done", "failed"}) => callerMessages = initialMessages
----------------------------------------------------------------------------
(* Properties of handleSendMessage *)

SendCalled == smPc \in {"awaiting", "done"}

GuardsFail ==
    \/ smEnv.walletStatus # "ok"
    \/ smEnv.token = Null
    \/ smBefore.selectedProviderId = Null

\* the call returned null, called no chat API and added no message
RejectedUntouched ==
    /\ smPc = "done"
    /\ smReturn = Null
    /\ smRequests = <<>>
    /\ smState.messagesByChatId = smBefore.messagesByChatId

LoginRequested ==
    /\ smState.pendingAction = Some("SEND_MESSAGE")
    /\ smLogins = 1

\* C33 (as claimed): a call made with a wallet status other than 'ok',
\* without an access token or without a selected provider returns null, calls
\* no chat API and adds no optimistic message; whenever the token is missing,
\* or the wallet is loading with no current user, pendingAction is
\* 'SEND_MESSAGE' and login navigation was requested
C33_GuardRejection ==
    (SendCalled /\ GuardsFail) =>
        /\ RejectedUntouched
        /\ (\/ smEnv.token = Null
            \/ (smEnv.walletStatus = "loading" /\ ~smEnv.currentUser)) => LoginRequested

\* C33 (amended): as claimed, with the missing token leading to the login
\* request when the wallet status is 'ok'
C33_GuardRejectionWalletOk ==
    (SendCalled /\ GuardsFail) =>
        /\ RejectedUntouched
        /\ (\/ (smEnv.walletStatus = "ok" /\ smEnv.token = Null)
            \/ (smEnv.walletStatus = "loading" /\ ~smEnv.currentUser)) => LoginRequested

C33_Witness ==
    /\ smPc = "done"
    /\ smEnv.walletStatus = "ok"
    /\ smEnv.token = Null
    /\ smBefore.isLoadingAiResponse
    /\ RejectedUntouched
    /\ LoginRequested

\* callChatApi settled without an assistant message: it threw, it returned
\* an error or no data, or the data carries no assistantMessage
SendFailed ==
    /\ smPc = "done"
    /\ smOutcome # Null
    /\ \/ smOutcome[1].kind = "thrown"
       \/ /\ smOutcome[1].kind = "returned"
          /\ \/ "error" \in DOMAIN smOutcome[1].response
             \/ /\ "data" \in DOMAIN smOutcome[1].response
                /\ \/ smOutcome[1].response.data.kind # "chat"
                   \/ /\ smOutcome[1].response.data.kind = "chat"
                      /\ smOutcome[1].response.data.assistantMessage = Null

\* C34: after a send whose chat API call failed or yielded no assistant
\* message, the chat of the optimistic message holds exactly the messages it
\* held before the call, aiError is set and null was returned
C34_FailureRemovesOptimisticMessage ==
    SendFailed =>
        /\ MessagesOf(smState, smLocals[1].optimisticMessageChatId)
              = MessagesOf(smBefore, smLocals[1].optimisticMessageChatId)
        /\ ~HasId(MessagesOf(smState, smLocals[1].optimisticMessageChatId), TempUserMessageId)
        /\ smState.aiError # Null
        /\ smReturn = Null

C34_Witness ==
    /\ SendFailed
    /\ smOutcome[1].kind = "returned"
    /\ "data" \in DOMAIN smOutcome[1].response
    /\ smOutcome[1].response.data.kind = "chat"
    /\ Len(MessagesOf(smState, smLocals[1].optimisticMessageChatId)) = 4
    /\ smState.aiError # Null

\* the path a finished call took
SendPath ==
    IF smOutcome = Null THEN "guard"
    ELSE IF smOutcome[1].kind = "thrown" THEN "exception"
    ELSE IF SendFailed THEN "api_error"
    ELSE IF smOutcome[1].response.data.chatId = Null
            /\ smOutcome[1].response.data.assistantMessage[1].chat_id = Null
    THEN "missing_chat_id"
    ELSE "success"

\* C35: every handleSendMessage call that has returned, by whichever path,
\* has left isLoadingAiResponse false
C35_LoadingClearedOnEveryPath ==
    smPc = "done" => ~smState.isLoadingAiResponse

C35_Witness ==
    /\ smPc = "done"
    /\ SendPath = "missing_chat_id"
    /\ smReturn # Null
    /\ smState.aiError = Some(<<"Internal error: Chat ID missing.">>)
    /\ ~smState.isLoadingAiResponse

SendSucceeded == smPc = "done" /\ SendPath = "success"

\* the chat id the server returned: the response's, else the assistant message's
ServerReturnedChatId ==
    IF smOutcome[1].response.data.chatId # Null
    THEN smOutcome[1].response.data.chatId[1]
    ELSE smOutcome[1].response.data.assistantMessage[1].chat_id[1]

\* the send was a rewind: by the server's word, else by the call's chat id
\* and the rewind target
SendWasRewind ==
    IF smOutcome[1].response.data.isRewind # Null
    THEN smOutcome[1].response.data.isRewind[1]
    ELSE smLocals[1].inputChatId # Null /\ smBefore.rewindTargetMessageId # Null

Occurrences(messages, id) == Cardinality({ i \in 1..Len(messages) : messages[i].id = id })

OrgChats(chatsByContext, org) ==
    IF org \in DOMAIN chatsByContext.orgs THEN chatsByContext.orgs[org] ELSE <<>>

\* one Chat entry for the id is appended to one list of chatsByContext and
\* every other list is as it was
OneChatAppended(before, after, id) ==
    \/ /\ Len(after.personal) = Len(before.personal) + 1
       /\ SubSeq(after.personal, 1, Len(before.personal)) = before.personal
       /\ after.personal[Len(after.personal)].id = id
       /\ after.orgs = before.orgs
    \/ /\ after.personal = before.personal
       /\ \E org \in DOMAIN after.orgs :
             /\ Len(after.orgs[org]) = Len(OrgChats(before, org)) + 1
             /\ SubSeq(after.orgs[org], 1, Len(OrgChats(before, org))) = OrgChats(before, org)
             /\ after.orgs[org][Len(after.orgs[org])].id = id
             /\ \A other \in DOMAIN after.orgs \ {org} :
                   OrgChats(after, other) = OrgChats(before, other)
             /\ DOMAIN before.orgs \subseteq DOMAIN after.orgs

\* C36: after a successful send that is not a rewind the chat's messages are
\* under the chat id the server returned, the earlier messages first and the
\* assistant message exactly once; when that id is not the optimistic chat
\* id, the optimistic key is gone from messagesByChatId and
\* selectedMessagesMap, currentChatId is the server's id, newChatContext is
\* null and chatsByContext has exactly one more Chat entry
C36_SuccessStoresUnderServerChat ==
    (SendSucceeded /\ ~SendWasRewind) =>
        LET id == ServerReturnedChatId
            optimistic == smLocals[1].optimisticMessageChatId
            messages == MessagesOf(smState, id)
            earlier == MessagesOf(smBefore, optimistic)
        IN  /\ id \in DOMAIN smState.messagesByChatId
            /\ Len(messages) = Len(earlier) + 2
            /\ SubSeq(messages, 1, Len(earlier)) = earlier
            /\ Occurrences(messages, smReturn[1].id) = 1
            /\ id # optimistic =>
                  /\ optimistic \notin DOMAIN smState.messagesByChatId
                  /\ optimistic \notin DOMAIN smState.selectedMessagesMap
                  /\ smState.currentChatId = Some(id)
                  /\ smState.newChatContext = Null
                  /\ OneChatAppended(smBefore.chatsByContext, smState.chatsByContext, id)

C36_Witness ==
    /\ SendSucceeded
    /\ ~SendWasRewind
    /\ ServerReturnedChatId = "chat-new"
    /\ smLocals[1].optimisticMessageChatId = TempChatId
    /\ smBefore.newChatContext = Some("org-1")
    /\ Len(OrgChats(smState.chatsByContext, "org-1")) = 2
    /\ smState.currentChatId = Some("chat-new")
    /\ Len(MessagesOf(smState, "chat-new")) = 2

\* the rewind target is a message the chat held when the call was made
RewindTargetInChat ==
    /\ smBefore.rewindTargetMessageId # Null
    /\ HasId(MessagesOf(smBefore, ServerReturnedChatId), smBefore.rewindTargetMessageId[1])

\* the messages the chat held before its rewind target
BeforeRewindTarget ==
    LET stored == MessagesOf(smBefore, ServerReturnedChatId)
        target == smBefore.rewindTargetMessageId[1]
    IN  SelectSeq([i \in 1..Len(stored) |->
                      [m |-> stored[i],
                       early |-> \A j \in 1..i : stored[j].id # target]],
                  LAMBDA e : e.early)

AuthRequiredThrown ==
    /\ smPc = "done"
    /\ smOutcome # Null
    /\ smOutcome[1].kind = "thrown"
    /\ smOutcome[1].name = "AuthRequiredError"

\* C38: when the API client throws AuthRequiredError into callChatApi, the
\* send ends with the optimistic message removed, pendingAction
\* 'SEND_MESSAGE', pendingActionDetails stored and login navigation requested
C38_ThrownAuthErrorTakesAuthBranch ==
    AuthRequiredThrown =>
        /\ ~HasId(MessagesOf(smState, smLocals[1].optimisticMessageChatId), TempUserMessageId)
        /\ smState.pendingAction = Some("SEND_MESSAGE")
        /\ smPendingDetails # Null
        /\ smLogins = 1

----------------------------------------------------------------------------
(* Properties of ApiClient.getToken under concurrent requests *)

\* the marker is set exactly while a getSession call is pending, and names it
MarkerMatchesFlight ==
    /\ Cardinality(tkInFlight) <= 1
    /\ tkPromise = Null <=> tkInFlight = {}
    /\ tkPromise # Null => tkInFlight = {tkPromise[1]}

\* a resumed request has what the getSession call it waited for settled to
SharersGotItsResult ==
    \A r \in RequestIds :
        tkGot[r] # Null => tkGot[r] = tkSettled[tkAwaits[r]]

\* a request that goes to getToken joins the pending getSession call, or
\* starts one when none is pending
JoinsOrStartsFresh ==
    \A r \in RequestIds :
        (tkPc[r] = "idle" /\ tkPc'[r] = "awaiting_token") =>
            IF tkInFlight # {}
            THEN /\ tkFetches' = tkFetches
                 /\ tkAwaits'[r] \in tkInFlight
                 /\ tkInFlight' = tkInFlight
            ELSE /\ tkFetches' = tkFetches + 1
                 /\ tkAwaits'[r] = tkFetches + 1
                 /\ tkInFlight' = {tkFetches + 1}

\* C39: whatever the interleaving of requests that need a session token, at
\* most one getSession call is pending; a request arriving meanwhile waits
\* for that call and gets its result; the marker is cleared when the call
\* settles, resolved or rejected, and the next request starts a new call
C39_OneTokenFetchInFlight ==
    /\ [](MarkerMatchesFlight /\ SharersGotItsResult)
    /\ [][JoinsOrStartsFresh]_vars

C39_Witness ==
    /\ tkFetches = 2
    /\ tkAwaits[1] = tkAwaits[2]
    /\ tkAwaits[3] # tkAwaits[1]
    /\ tkPc[1] = "failed"
    /\ tkPc[2] = "failed"
    /\ tkGot[3] # Null
    /\ tkGot[3][1].settled = "resolved"
    /\ tkPromise = Null

====
